---- MODULE Spec2Model ----
(***************************************************************************)
(* A model of the design agent of AIWebPage: the in-memory session store   *)
(* (src/lib/state/index.ts), the agent tools (src/lib/agent/tools.ts) and  *)
(* the decision and execution logic (src/lib/agent/index.ts).              *)
(*                                                                         *)
(* Text is modelled as a sequence of word tokens; String.includes is the   *)
(* contiguous-subsequence test on tokens and toLowerCase is a per-token    *)
(* table.  An optional (possibly undefined) field is a sequence of length  *)
(* 0 (undefined) or 1 (the value).                                         *)
(***************************************************************************)
EXTENDS Integers, Sequences, FiniteSets, TLC

\* ------------------------------------------------------------------------
\* Optional values (TypeScript `x?: T`, `T | undefined`, `T | null`)
\* ------------------------------------------------------------------------
Undefined == <<>>

Some(x) == <<x>>

IsDef(o) == o # <<>>

\* `o || d` for an optional whose defined values are all truthy (arrays, objects)
OrElse(o, d) == IF o = <<>> THEN d ELSE o[1]

\* ------------------------------------------------------------------------
\* Sequence helpers (Array.prototype.map / filter / some / find)
\* ------------------------------------------------------------------------
Range(s) == {s[i] : i \in 1..Len(s)}

RECURSIVE FilterSeq(_, _)
\* s.filter(x => x \in keep)
FilterSeq(s, keep) ==
  IF s = <<>> THEN <<>>
  ELSE IF Head(s) \in keep THEN <<Head(s)>> \o FilterSeq(Tail(s), keep)
       ELSE FilterSeq(Tail(s), keep)

\* ------------------------------------------------------------------------
\* Text
\* ------------------------------------------------------------------------
\* String.prototype.toLowerCase on one token: the tokens of the model that
\* carry upper-case letters, with their lower-case forms.
LowerTable ==
  [t \in {"Header", "HEADER", "Footer", "Hero", "HERO", "Section", "Start", "Scratch",
          "Duplicate", "DUPLICATE", "Create", "New", "Let's", "Refresh", "From"} |->
     CASE t = "Header" -> "header"
       [] t = "HEADER" -> "header"
       [] t = "Footer" -> "footer"
       [] t = "Hero" -> "hero"
       [] t = "HERO" -> "hero"
       [] t = "Section" -> "section"
       [] t = "Start" -> "start"
       [] t = "Scratch" -> "scratch"
       [] t = "Duplicate" -> "duplicate"
       [] t = "DUPLICATE" -> "duplicate"
       [] t = "Create" -> "create"
       [] t = "New" -> "new"
       [] t = "Let's" -> "let's"
       [] t = "Refresh" -> "refresh"
       [] t = "From" -> "from"]

toLowerCaseToken(t) == IF t \in DOMAIN LowerTable THEN LowerTable[t] ELSE t

toLowerCase(text) == [i \in 1..Len(text) |-> toLowerCaseToken(text[i])]

\* String.prototype.includes: needle occurs in hay as a contiguous run
includes(hay, needle) ==
  \E i \in 0..(Len(hay) - Len(needle)) :
    \A j \in 1..Len(needle) : hay[i + j] = needle[j]

\* ------------------------------------------------------------------------
\* References: the strings of a decision that name a unit (update.componentId,
\* the entries of screenOrder).  A string either has the shape of a UUID, and
\* then stands for the identifier `id`, or is free text.
\* ------------------------------------------------------------------------
NameRef(name) == [shape |-> "text", text |-> name, id |-> 0]

IdRef(id) == [shape |-> "uuid", text |-> <<>>, id |-> id]

\* ------------------------------------------------------------------------
\* Decision normalisation (src/lib/agent/index.ts, normalizeDecision)
\* ------------------------------------------------------------------------
branchKeywords ==
  { <<"new", "version">>, <<"another", "version">>, <<"different", "version">>,
    <<"create", "a", "version">>,
    <<"branch">>, <<"create", "a", "branch">>,
    <<"copy">>, <<"duplicate">>, <<"clone">>,
    <<"variant">>, <<"alternative">>,
    <<"keep", "the", "original">>, <<"without", "changing", "the", "original">>,
    <<"try", "a", "different">>, <<"experiment", "with">>,
    <<"make", "a", "copy">>, <<"create", "a", "copy">> }

explicitRegenKeywords ==
  { <<"delete", "everything">>, <<"start", "over">>, <<"start", "fresh">>,
    <<"completely", "new">>,
    <<"new", "page">>, <<"different", "page">>, <<"replace", "everything">>,
    <<"from", "scratch">>,
    <<"completely", "different">>, <<"total", "redesign">>, <<"create", "a", "new">>,
    <<"build", "a", "new">> }

\* the regeneration guard reading the prompt too (mutant of isExplicitRegen)
isExplicitRegen_alsoPrompt(promptLC, rationaleLC) ==
  \E kw \in explicitRegenKeywords : includes(rationaleLC, kw) \/ includes(promptLC, kw)

\* the regeneration guard accepting every rationale (mutant of isExplicitRegen)
isExplicitRegen_always(promptLC, rationaleLC) == TRUE

\* the regeneration guard accepting no rationale (mutant of isExplicitRegen)
isExplicitRegen_never(promptLC, rationaleLC) == FALSE

\* line 118: explicitRegenKeywords.some(kw => rationaleLC.includes(kw));
\* the prompt is in scope there and is not read
isExplicitRegen(promptLC, rationaleLC) ==
  \E kw \in explicitRegenKeywords : includes(rationaleLC, kw)

\* lines 92-94
hasBranchingIntent(promptLC, rationaleLC) ==
  \E kw \in branchKeywords : includes(promptLC, kw) \/ includes(rationaleLC, kw)

\* lines 62-72: specs the reasoning service put in newComponents are moved
repairMisplacedSpecs(decision) ==
  IF /\ decision.action = "REGENERATE_SCREEN"
     /\ (~IsDef(decision.regenerateSpecs) \/ Len(decision.regenerateSpecs[1]) = 0)
     /\ IsDef(decision.newComponents)
     /\ Len(decision.newComponents[1]) > 0
  THEN [decision EXCEPT !.regenerateSpecs = decision.newComponents,
                        !.newComponents = Some(<<>>)]
  ELSE decision

\* branch detection that never sets the flag (mutant of forceCreateBranch)
forceCreateBranch_never(decision, hasExistingComponents, userPrompt) == decision

\* lines 97-104
forceCreateBranch(decision, hasExistingComponents, userPrompt) ==
  IF /\ hasExistingComponents
     /\ hasBranchingIntent(toLowerCase(userPrompt), toLowerCase(decision.rationale))
     /\ ~(IsDef(decision.createBranch) /\ decision.createBranch[1])
  THEN [decision EXCEPT !.createBranch = Some(TRUE)]
  ELSE decision

\* lines 135-137: the names already in the decision's screenOrder, then the
\* names of the specs that are not among them
combinedOrder(decision, specs) ==
  LET existingNames == OrElse(decision.screenOrder, <<>>)
      newNames == [i \in 1..Len(specs) |-> NameRef(specs[i].name)]
  IN existingNames \o FilterSeq(newNames, Range(newNames) \ Range(existingNames))

\* the downgraded decision losing the specs (mutant of protectedDecision)
protectedDecision_dropSpecs(decision) ==
  [ action |-> "UPDATE_COMPONENTS",
    rationale |-> <<"[PROTECTED]">> \o decision.rationale
                    \o <<". Adding new components while preserving existing ones.">>,
    createBranch |-> decision.createBranch,
    newComponents |-> Some(<<>>),
    updates |-> Some(OrElse(decision.updates, <<>>)),
    screenOrder |-> Undefined,
    layout |-> decision.layout,
    regenerateSpecs |-> Undefined ]

\* the downgraded decision built by spreading the decision handed in, so that
\* its regeneration specs stay (mutant of protectedDecision)
protectedDecision_spread(decision) ==
  [ decision EXCEPT
      !.action = "UPDATE_COMPONENTS",
      !.rationale = <<"[PROTECTED]">> \o decision.rationale
                      \o <<". Adding new components while preserving existing ones.">>,
      !.newComponents = Some(OrElse(decision.regenerateSpecs, <<>>)),
      !.updates = Some(OrElse(decision.updates, <<>>)) ]

\* lines 129-147: the incremental-update decision a blocked regeneration becomes
protectedDecision(decision) ==
  LET specs == OrElse(decision.regenerateSpecs, <<>>)
      order == combinedOrder(decision, specs)
  IN [ action |-> "UPDATE_COMPONENTS",
       rationale |-> <<"[PROTECTED]">> \o decision.rationale
                       \o <<". Adding new components while preserving existing ones.">>,
       createBranch |-> decision.createBranch,
       newComponents |-> Some(specs),
       updates |-> Some(OrElse(decision.updates, <<>>)),
       screenOrder |-> IF Len(order) > 0 THEN Some(order) ELSE Undefined,
       layout |-> decision.layout,
       regenerateSpecs |-> Undefined ]

\* the branch detection and the guard applied without looking at the
\* session's units (mutant of normalizeDecision)
normalizeDecision_unguarded(decision, hasExistingComponents, userPrompt) ==
  LET d1 == repairMisplacedSpecs(decision)
      d2 == forceCreateBranch(d1, TRUE, userPrompt)
      explicit == isExplicitRegen(toLowerCase(userPrompt), toLowerCase(d2.rationale))
  IN IF d2.action = "REGENERATE_SCREEN" /\ ~explicit
     THEN protectedDecision(d2)
     ELSE d2

\* lines 58-151
normalizeDecision(decision, hasExistingComponents, userPrompt) ==
  LET d1 == repairMisplacedSpecs(decision)
      d2 == forceCreateBranch(d1, hasExistingComponents, userPrompt)
      explicit == isExplicitRegen(toLowerCase(userPrompt), toLowerCase(d2.rationale))
  IN IF hasExistingComponents /\ d2.action = "REGENERATE_SCREEN" /\ explicit
     THEN d2
     ELSE IF hasExistingComponents /\ d2.action = "REGENERATE_SCREEN" /\ ~explicit
          THEN protectedDecision(d2)
          ELSE d2

\* ------------------------------------------------------------------------
\* State
\* ------------------------------------------------------------------------
VARIABLES
  store,     \* the sessions Map
  calls,     \* the handlePrompt calls in flight, by slot
  ncalls,    \* handlePrompt calls started so far
  clock,     \* the time: advances after every stored generation (Spec)
             \* and between requests (SpecReset)
  service,   \* the validated decisions the reasoning service may return
  normIn,    \* inputs of a normalizeDecision evaluation (SpecNorm)
  normOut,   \* its result
  resolved,  \* the resolveComponentId calls made so far (SpecResolve)
  resets,    \* the requests to the reset route and their responses (SpecReset)
  page       \* the page in the browser, with the server as it sees it
             \* (SpecFrames)

vars == <<store, calls, ncalls, clock, service, normIn, normOut, resolved, resets, page>>

\* what no step of a handlePrompt call or reset changes
env == <<service, normIn, normOut, resolved, resets, page>>

\* new Date()
DateNow == clock

\* ------------------------------------------------------------------------
\* Session store (src/lib/state/index.ts).  A store `st` is the Map from
\* session identifier to session: a function whose domain is the identifiers
\* in the store.  A session's `components` Map is the sequence of its values
\* in insertion order.
\* ------------------------------------------------------------------------
\* lines 61-69: the state of a session just created
EmptySession ==
  [ messages |-> <<>>, components |-> <<>>, screen |-> Undefined,
    decisionHistory |-> <<>>, lastActivityAt |-> 0 ]

\* uuidv4() of createSession: the n-th session of the store is named n
NewSessionId(st) == Cardinality(DOMAIN st) + 1

\* lines 57-73
createSession(st) ==
  (NewSessionId(st) :> [EmptySession EXCEPT !.lastActivityAt = DateNow]) @@ st

\* lines 78-85: the identifier getOrCreateSession answers with
getOrCreateSessionId(st, sessionId) ==
  IF IsDef(sessionId) /\ sessionId[1] \in DOMAIN st THEN sessionId[1]
  ELSE NewSessionId(st)

\* a lookup that makes a new session every time (mutant of
\* getOrCreateSession)
getOrCreateSession_alwaysNew(st, sessionId) == createSession(st)

\* lines 78-85: the store after getOrCreateSession
getOrCreateSession(st, sessionId) ==
  IF IsDef(sessionId) /\ sessionId[1] \in DOMAIN st
  THEN [st EXCEPT ![sessionId[1]].lastActivityAt = DateNow]
  ELSE createSession(st)

\* lines 97-115
addMessage(st, sessionId, role, content) ==
  IF sessionId \notin DOMAIN st THEN st
  ELSE [st EXCEPT ![sessionId].messages =
                    Append(@, [role |-> role, content |-> content]),
                  ![sessionId].lastActivityAt = DateNow]

\* Map.prototype.has / get by component id
hasComponent(components, id) == \E i \in 1..Len(components) : components[i].id = id

\* a write that deletes the key and sets it again, so that an existing key
\* moves to the end (mutant of mapSet)
mapSet_moveToEnd(components, component) ==
  Append(FilterSeq(components, {u \in Range(components) : u.id # component.id}),
         component)

\* Map.prototype.set: an existing key keeps its place, a new key goes last
mapSet(components, component) ==
  IF hasComponent(components, component.id)
  THEN [i \in 1..Len(components) |->
          IF components[i].id = component.id THEN component ELSE components[i]]
  ELSE Append(components, component)

\* a unit written to every session of the store (mutant of upsertComponent)
upsertComponent_everySession(st, sessionId, component) ==
  IF sessionId \notin DOMAIN st THEN st
  ELSE [s \in DOMAIN st |->
          [st[s] EXCEPT !.components = mapSet(@, component),
                        !.lastActivityAt = DateNow]]

\* lines 120-128
upsertComponent(st, sessionId, component) ==
  IF sessionId \notin DOMAIN st THEN st
  ELSE [st EXCEPT ![sessionId].components = mapSet(@, component),
                  ![sessionId].lastActivityAt = DateNow]

\* lines 133-138: the component, or undefined
getComponent(st, sessionId, componentId) ==
  IF sessionId \notin DOMAIN st THEN Undefined
  ELSE LET cs == st[sessionId].components
       IN IF hasComponent(cs, componentId)
          THEN Some(cs[CHOOSE i \in 1..Len(cs) : cs[i].id = componentId])
          ELSE Undefined

\* lines 143-151
updateScreen(st, sessionId, screen) ==
  IF sessionId \notin DOMAIN st THEN st
  ELSE [st EXCEPT ![sessionId].screen = Some(screen),
                  ![sessionId].lastActivityAt = DateNow]

\* a reset that removes the session (mutant of resetSession)
resetSession_delete(st, sessionId) == [s \in DOMAIN st \ {sessionId} |-> st[s]]

\* a reset that keeps the audit log (mutant of resetSession)
resetSession_keepLog(st, sessionId) ==
  IF sessionId \notin DOMAIN st THEN st
  ELSE [st EXCEPT ![sessionId].messages = <<>>,
                  ![sessionId].components = <<>>,
                  ![sessionId].screen = Undefined,
                  ![sessionId].lastActivityAt = DateNow]

\* reset that keeps the screen (mutant of resetSession)
resetSession_keepScreen(st, sessionId) ==
  IF sessionId \notin DOMAIN st THEN st
  ELSE [st EXCEPT ![sessionId].messages = <<>>,
                  ![sessionId].components = <<>>,
                  ![sessionId].decisionHistory = <<>>,
                  ![sessionId].lastActivityAt = DateNow]

\* lines 156-167
resetSession(st, sessionId) ==
  IF sessionId \notin DOMAIN st THEN st
  ELSE [st EXCEPT ![sessionId].messages = <<>>,
                  ![sessionId].components = <<>>,
                  ![sessionId].screen = Undefined,
                  ![sessionId].decisionHistory = <<>>,
                  ![sessionId].lastActivityAt = DateNow]

\* a log with the newest entry first (mutant of addDecisionToHistory)
addDecisionToHistory_prepend(st, sessionId, entryId, prompt, decision, componentsAffected) ==
  IF sessionId \notin DOMAIN st THEN st
  ELSE [st EXCEPT ![sessionId].decisionHistory =
          <<[ id |-> entryId, prompt |-> prompt, decision |-> decision,
              componentsAffected |-> componentsAffected ]>> \o @,
                  ![sessionId].lastActivityAt = DateNow]

\* lines 205-213: the session as the client gets it
serializeSession(st, sessionId) ==
  [ id |-> Some(sessionId),
    messages |-> st[sessionId].messages,
    components |-> st[sessionId].components,
    screen |-> st[sessionId].screen,
    decisionHistory |-> st[sessionId].decisionHistory ]

\* lines 172-193; the entry's uuid is the number of the call that appends it
addDecisionToHistory(st, sessionId, entryId, prompt, decision, componentsAffected) ==
  IF sessionId \notin DOMAIN st THEN st
  ELSE [st EXCEPT ![sessionId].decisionHistory =
          Append(@, [ id |-> entryId, prompt |-> prompt, decision |-> decision,
                      componentsAffected |-> componentsAffected ]),
                  ![sessionId].lastActivityAt = DateNow]

\* ------------------------------------------------------------------------
\* Agent tools (src/lib/agent/tools.ts)
\* ------------------------------------------------------------------------
\* lines 365-370: every identifier of the list is a key of the session's Map
composeValid(st, sessionId, componentIds) ==
  /\ sessionId \in DOMAIN st
  /\ \A i \in 1..Len(componentIds) :
       hasComponent(st[sessionId].components, componentIds[i])

\* compose that commits the identifiers it knows (mutant of composeScreen)
composeScreen_partial(st, sessionId, componentIds, layout, layoutConfig) ==
  IF sessionId \notin DOMAIN st THEN st
  ELSE updateScreen(st, sessionId,
         [ componentIds |->
             FilterSeq(componentIds,
               {id \in Range(componentIds) : hasComponent(st[sessionId].components, id)}),
           layout |-> layout, layoutConfig |-> layoutConfig ])

\* compose without the existence check (mutant of composeScreen)
composeScreen_unchecked(st, sessionId, componentIds, layout, layoutConfig) ==
  updateScreen(st, sessionId,
    [componentIds |-> componentIds, layout |-> layout, layoutConfig |-> layoutConfig])

\* lines 348-385: the store after composeScreen; composeValid is its success
composeScreen(st, sessionId, componentIds, layout, layoutConfig) ==
  IF composeValid(st, sessionId, componentIds)
  THEN updateScreen(st, sessionId,
         [componentIds |-> componentIds, layout |-> layout, layoutConfig |-> layoutConfig])
  ELSE st

RECURSIVE matchesOf(_, _)
\* lines 414-417: the components whose lower-cased name includes the query
matchesOf(components, query) ==
  IF components = <<>> THEN <<>>
  ELSE IF includes(toLowerCase(Head(components).name), query)
       THEN <<Head(components)>> \o matchesOf(Tail(components), query)
       ELSE matchesOf(Tail(components), query)

\* lines 407-424: the matches (empty: the failure result)
findComponentByName(st, sessionId, nameQuery) ==
  IF sessionId \notin DOMAIN st THEN <<>>
  ELSE matchesOf(st[sessionId].components, toLowerCase(nameQuery))

\* ------------------------------------------------------------------------
\* Reference resolution (src/lib/agent/index.ts)
\* ------------------------------------------------------------------------
\* a resolver that answers with the last match (mutant of resolveComponentId)
resolveComponentId_lastMatch(st, sessionId, reference) ==
  IF reference.shape = "uuid" THEN Some(reference.id)
  ELSE LET data == findComponentByName(st, sessionId, reference.text)
       IN IF Len(data) > 0 THEN Some(data[Len(data)].id) ELSE Undefined

\* a resolver that looks an identifier up (mutant of resolveComponentId)
resolveComponentId_checked(st, sessionId, reference) ==
  IF reference.shape = "uuid"
  THEN (IF IsDef(getComponent(st, sessionId, reference.id))
        THEN Some(reference.id) ELSE Undefined)
  ELSE LET data == findComponentByName(st, sessionId, reference.text)
       IN IF Len(data) > 0 THEN Some(data[1].id) ELSE Undefined

\* lines 252-265: the identifier, or null
resolveComponentId(st, sessionId, reference) ==
  IF reference.shape = "uuid" THEN Some(reference.id)
  ELSE LET data == findComponentByName(st, sessionId, reference.text)
       IN IF Len(data) > 0 THEN Some(data[1].id) ELSE Undefined

\* lines 270-278: the first component of the list with that name, any case
resolveComponentIdFromList(components, name) ==
  IF \E i \in 1..Len(components) :
       toLowerCase(components[i].name) = toLowerCase(name)
  THEN LET k == CHOOSE i \in 1..Len(components) :
                  /\ toLowerCase(components[i].name) = toLowerCase(name)
                  /\ \A j \in 1..(i - 1) :
                       toLowerCase(components[j].name) # toLowerCase(name)
       IN Some(components[k].id)
  ELSE Undefined

\* ------------------------------------------------------------------------
\* Bounds and the inputs the environment draws
\* ------------------------------------------------------------------------
\* handlePrompt calls in one behaviour
MaxCalls == 2

UnitSpec(name, description) == [name |-> name, description |-> description]

SpecHeader == UnitSpec(<<"Header">>, "page header")

SpecHero == UnitSpec(<<"Hero">>, "hero banner")

SpecFooter == UnitSpec(<<"Footer">>, "page footer")

RationalePlain == <<"Let's", "Refresh", "the", "page">>

RationaleExplicit == <<"Start", "From", "Scratch">>

RationaleBranch == <<"make", "a", "DUPLICATE">>

RationaleBoth == <<"Create", "a", "New", "version">>

PromptPlain == <<"make", "the", "header", "blue">>

PromptBranch == <<"Create", "a", "Duplicate", "with", "dark", "mode">>

PromptExplicit == <<"Start", "over">>

\* a decision with every optional field undefined
Decision(action, rationale) ==
  [ action |-> action, rationale |-> rationale, createBranch |-> Undefined,
    updates |-> Undefined, newComponents |-> Undefined, screenOrder |-> Undefined,
    regenerateSpecs |-> Undefined, layout |-> Undefined ]

LayoutSpec(type, sidebar, header, footer) ==
  [ type |-> type, sidebarComponent |-> sidebar, headerComponent |-> header,
    footerComponent |-> footer ]

\* an identifier-shaped reference to no unit of any session
GhostRef == IdRef(99)

\* the validated decisions the reasoning service returns in the model
ExecDecisions ==
  { [Decision("REGENERATE_SCREEN", RationaleExplicit) EXCEPT
       !.regenerateSpecs = Some(<<SpecHeader, SpecHero, SpecFooter>>),
       !.layout = Some(LayoutSpec("holy-grail", Undefined, Some(<<"header">>),
                                  Some(<<"Footer">>)))],
    [Decision("REGENERATE_SCREEN", RationalePlain) EXCEPT
       !.regenerateSpecs = Some(<<SpecHero>>)],
    [Decision("REGENERATE_SCREEN", RationalePlain) EXCEPT
       !.regenerateSpecs = Some(<<SpecHero>>),
       !.screenOrder = Some(<<NameRef(<<"Footer">>), NameRef(<<"Header">>)>>)],
    [Decision("REGENERATE_SCREEN", RationalePlain) EXCEPT
       !.newComponents = Some(<<SpecHeader, SpecFooter>>)],
    Decision("REGENERATE_SCREEN", RationaleExplicit),
    [Decision("UPDATE_COMPONENTS", RationalePlain) EXCEPT
       !.updates = Some(<<[componentId |-> NameRef(<<"header">>),
                           changeDescription |-> "make it blue"]>>)],
    [Decision("UPDATE_COMPONENTS", RationalePlain) EXCEPT
       !.newComponents = Some(<<SpecHero>>)],
    [Decision("UPDATE_COMPONENTS", RationalePlain) EXCEPT
       !.screenOrder = Some(<<NameRef(<<"Footer">>), GhostRef,
                              NameRef(<<"Header">>)>>)],
    [Decision("UPDATE_COMPONENTS", RationalePlain) EXCEPT
       !.layout = Some(LayoutSpec("sidebar-left", Some(<<"hero">>), Undefined,
                                  Undefined))],
    Decision("UPDATE_COMPONENTS", RationalePlain) }

\* decisions for a batch of two updates that resolve to the same unit
BatchDecisions ==
  { [Decision("REGENERATE_SCREEN", RationalePlain) EXCEPT
       !.regenerateSpecs = Some(<<SpecHeader>>)],
    [Decision("UPDATE_COMPONENTS", RationalePlain) EXCEPT
       !.updates = Some(<<[componentId |-> NameRef(<<"header">>),
                           changeDescription |-> "make it blue"],
                          [componentId |-> NameRef(<<"HEADER">>),
                           changeDescription |-> "make it bigger"]>>)] }

SpecHeroSection == UnitSpec(<<"Hero", "Section">>, "hero section")

\* a reference by a name no unit of the model has
NoSuchRef == NameRef(<<"sidebar">>)

\* decisions for incremental updates of a screen with a header and a footer:
\* with a target that does not resolve, with an explicit order, with new
\* units and no order
UpdateDecisions ==
  { [Decision("REGENERATE_SCREEN", RationalePlain) EXCEPT
       !.regenerateSpecs = Some(<<SpecHeader, SpecFooter>>)],
    [Decision("UPDATE_COMPONENTS", RationalePlain) EXCEPT
       !.updates = Some(<<[componentId |-> NoSuchRef,
                           changeDescription |-> "make it wider"],
                          [componentId |-> NameRef(<<"header">>),
                           changeDescription |-> "make it blue"]>>),
       !.newComponents = Some(<<SpecHero>>)],
    [Decision("UPDATE_COMPONENTS", RationalePlain) EXCEPT
       !.newComponents = Some(<<SpecHero>>),
       !.screenOrder = Some(<<NameRef(<<"HERO">>), NameRef(<<"Footer">>),
                              NoSuchRef, NameRef(<<"header">>)>>)],
    [Decision("UPDATE_COMPONENTS", RationalePlain) EXCEPT
       !.screenOrder = Some(<<NoSuchRef>>)],
    [Decision("UPDATE_COMPONENTS", RationalePlain) EXCEPT
       !.newComponents = Some(<<SpecHero, SpecHeroSection>>)] }

\* the repertoires of the reasoning service: in one behaviour it answers
\* with decisions of one repertoire
Repertoires == {ExecDecisions, BatchDecisions, UpdateDecisions}

\* the prompts of the model
Prompts == {PromptPlain}

\* outputs of the reasoning service that do not validate: one that is not
\* JSON and one that is JSON of the wrong shape
InvalidOutputs == {"Sure! Here is the plan", "{\"action\": \"DELETE\"}"}

\* the description a generation call returns: empty, or a revised one
GenDescriptions == {"", "revised"}

\* ------------------------------------------------------------------------
\* The calls in flight
\* ------------------------------------------------------------------------
\* the slots for handlePrompt calls in flight
Slots == {1, 2}

\* src/app/page.tsx lines 42-48: the page as it loads: no session, no frame,
\* nothing in flight; the server has no session.  `heap` holds the unit
\* objects of the frames' snapshots, an object's address being its index;
\* `made` counts the frames made (uuidv4 of a frame)
InitialPage ==
  [ sessionId |-> Undefined, components |-> <<>>, frames |-> <<>>,
    activeFrameId |-> Undefined, isLoading |-> FALSE, error |-> Undefined,
    decisionHistory |-> 0, inFlight |-> Undefined, resetting |-> Undefined,
    heap |-> <<>>, made |-> 0, submits |-> 0, duplicates |-> 0, resetClicks |-> 0,
    sessions |-> <<>> ]

\* no reference resolved yet, nothing composed from the results
NoneResolved == [log |-> <<>>, composed |-> "none"]

IdleCall ==
  [ pc |-> "idle", callNo |-> 0, prompt |-> <<>>, sessionId |-> Undefined,
    actualSessionId |-> 0, hasExistingComponents |-> FALSE, screenOrder |-> <<>>,
    requests |-> 0, userMessage |-> Undefined, sent |-> <<>>,
    validated |-> Undefined, decision |-> Undefined, ops |-> <<>>,
    composed |-> Undefined, before |-> <<>>, result |-> Undefined ]

\* ------------------------------------------------------------------------
\* makeDecision and runAgent (src/lib/agent/index.ts)
\* ------------------------------------------------------------------------
\* lines 169-172: the composition's identifiers as names (`comp?.name || id`)
screenOrderNames(session) ==
  IF ~IsDef(session.screen) THEN <<>>
  ELSE LET ids == session.screen[1].componentIds
       IN [i \in 1..Len(ids) |->
             LET comp == IF hasComponent(session.components, ids[i])
                         THEN Some(session.components[
                                CHOOSE k \in 1..Len(session.components) :
                                  session.components[k].id = ids[i]])
                         ELSE Undefined
             IN IF IsDef(comp) /\ Len(comp[1].name) > 0
                THEN NameRef(comp[1].name)
                ELSE IdRef(ids[i])]

\* Array.prototype.slice(-n)
lastOf(s, n) == SubSeq(s, IF Len(s) > n THEN Len(s) - n + 1 ELSE 1, Len(s))

\* prompts.ts lines 120-167: the context handed to the reasoning service.
\* The state section is there when the session has units, the conversation
\* section is the last six messages of the history handed in.
formatStateForDecision(userPrompt, messageHistory, components, orderNames, currentLayout) ==
  [ state |-> IF Len(components) > 0
              THEN Some([ components |->
                            [i \in 1..Len(components) |->
                               [name |-> components[i].name,
                                description |-> components[i].description]],
                          screenOrder |-> orderNames,
                          layout |-> OrElse(currentLayout, "stack") ])
              ELSE Undefined,
    conversation |-> lastOf(messageHistory, 6),
    request |-> userPrompt ]

\* lines 180-190: the context makeDecision builds for a session; the
\* history is the last ten messages and no layout is handed over
userMessageOf(session, userPrompt) ==
  formatStateForDecision(userPrompt, lastOf(session.messages, 10),
                         session.components, screenOrderNames(session), Undefined)

\* one message of a request to the reasoning service
ChatMessage(role, text, context) == [role |-> role, text |-> text, context |-> context]

\* lines 195-198: the messages of the first request
firstRequest(userMessage) ==
  << ChatMessage("system", "DECISION_SYSTEM_PROMPT", Undefined),
     ChatMessage("user", "", Some(userMessage)) >>

\* a retry that leaves out the invalid output (mutant of retryRequest)
retryRequest_withoutOutput(userMessage, content) ==
  firstRequest(userMessage)
  \o << ChatMessage("user", "JSON_CORRECTION_PROMPT", Undefined) >>

\* lines 220-225: the messages of the retry
retryRequest(userMessage, content) ==
  firstRequest(userMessage)
  \o << ChatMessage("assistant", content, Undefined),
        ChatMessage("user", "JSON_CORRECTION_PROMPT", Undefined) >>

\* lines 568-584: the result of a call whose decision could not be made
catchResult(st, sessionId, message) ==
  [ success |-> FALSE, error |-> Some(message),
    session |-> IF IsDef(sessionId) /\ sessionId[1] \in DOMAIN st
                THEN sessionId ELSE Undefined ]

\* lines 590-604
getComponentsAffected(decision) ==
  LET updates == OrElse(decision.updates, <<>>)
      added == OrElse(decision.newComponents, <<>>)
      regen == OrElse(decision.regenerateSpecs, <<>>)
  IN [i \in 1..Len(updates) |-> updates[i].componentId]
     \o [i \in 1..Len(added) |-> NameRef(added[i].name)]
     \o [i \in 1..Len(regen) |-> NameRef(regen[i].name)]

\* lines 609-634: the summary, as a sequence of references and text pieces
formatAssistantResponse(decision) ==
  IF decision.action = "REGENERATE_SCREEN"
  THEN LET regen == OrElse(decision.regenerateSpecs, <<>>)
       IN <<NameRef(<<"Created a new screen with components:">>)>>
          \o [i \in 1..Len(regen) |-> NameRef(regen[i].name)]
          \o <<NameRef(decision.rationale)>>
  ELSE LET updates == OrElse(decision.updates, <<>>)
           added == OrElse(decision.newComponents, <<>>)
           order == OrElse(decision.screenOrder, <<>>)
       IN (IF Len(updates) > 0
           THEN <<NameRef(<<"Updated:">>)>>
                \o [i \in 1..Len(updates) |-> updates[i].componentId]
           ELSE <<>>)
          \o (IF Len(added) > 0
              THEN <<NameRef(<<"Added:">>)>>
                   \o [i \in 1..Len(added) |-> NameRef(added[i].name)]
              ELSE <<>>)
          \o (IF Len(order) > 0 THEN <<NameRef(<<"Reordered screen">>)>> ELSE <<>>)
          \o <<NameRef(decision.rationale)>>

\* lines 554-567: the store after a decision was carried out
recordSuccess(st, call) ==
  LET d == call.decision[1]
      st1 == addMessage(st, call.actualSessionId, "assistant",
                        formatAssistantResponse(d))
  IN addDecisionToHistory(st1, call.actualSessionId, call.callNo, call.prompt, d,
                          getComponentsAffected(d))

\* ------------------------------------------------------------------------
\* Generation calls of a batch.  An op is one createComponent or
\* updateComponent promise: pending until its generation call settles.
\* ------------------------------------------------------------------------
\* tools.ts lines 260-273: createComponent up to its await
createOp(spec) ==
  [ kind |-> "create", name |-> spec.name, description |-> spec.description,
    existing |-> Undefined, change |-> "", status |-> "pending", data |-> Undefined ]

\* tools.ts lines 307-321: updateComponent up to its await; the unit is read
\* here, and a missing unit is a failure at once
updateOp(st, sessionId, componentId, changeRequest) ==
  LET existing == getComponent(st, sessionId, componentId)
  IN [ kind |-> "update", name |-> <<>>, description |-> "",
       existing |-> existing, change |-> changeRequest,
       status |-> IF IsDef(existing) THEN "pending" ELSE "rejected",
       data |-> Undefined ]

\* uuidv4() of createComponent: distinct per call and per op of the call
NewComponentId(callNo, i) == 10 * callNo + i

\* tools.ts lines 275-281: the component a successful creation stores
createdComponent(op, id, generatedDescription, now) ==
  [ id |-> id, name |-> op.name,
    description |-> IF generatedDescription # "" THEN generatedDescription
                    ELSE op.description,
    html |-> [gen |-> now, from |-> 0, change |-> ""],
    lastUpdatedAt |-> now ]

\* tools.ts lines 323-328: the component a successful update stores
updatedComponent(op, generatedDescription, now) ==
  [ op.existing[1] EXCEPT
      !.html = [gen |-> now, from |-> op.existing[1].html.gen, change |-> op.change],
      !.description = IF generatedDescription # "" THEN generatedDescription ELSE @,
      !.lastUpdatedAt = now ]

RECURSIVE dataOf(_, _)
\* the components of the fulfilled ops of one kind, in the order of the ops
dataOf(ops, kind) ==
  IF ops = <<>> THEN <<>>
  ELSE IF Head(ops).kind = kind /\ Head(ops).status = "fulfilled"
       THEN <<Head(ops).data[1]>> \o dataOf(Tail(ops), kind)
       ELSE dataOf(Tail(ops), kind)

allSettled(ops) == \A i \in 1..Len(ops) : ops[i].status # "pending"

\* a name given in a layout that is a non-empty string
truthyName(o) == IsDef(o) /\ Len(o[1]) > 0

\* ------------------------------------------------------------------------
\* executeRegenerate (src/lib/agent/index.ts lines 284-352)
\* ------------------------------------------------------------------------
\* regeneration composing the units in completion order (mutant)
regenerateOrder_byCompletion(st, sessionId, createdComponents) ==
  LET stored == st[sessionId].components
      mine == {createdComponents[i].id : i \in 1..Len(createdComponents)}
  IN FilterSeq([i \in 1..Len(stored) |-> stored[i].id], mine)

\* line 326: createdComponents.map(c => c.id)
regenerateOrder(st, sessionId, createdComponents) ==
  [i \in 1..Len(createdComponents) |-> createdComponents[i].id]

\* lines 327-340
regenerateLayoutConfig(layout, createdComponents) ==
  IF ~IsDef(layout) THEN Undefined
  ELSE Some([ sidebarComponentId |->
                IF truthyName(layout[1].sidebarComponent)
                THEN resolveComponentIdFromList(createdComponents,
                                                layout[1].sidebarComponent[1])
                ELSE Undefined,
              headerComponentId |->
                IF truthyName(layout[1].headerComponent)
                THEN resolveComponentIdFromList(createdComponents,
                                                layout[1].headerComponent[1])
                ELSE Undefined,
              footerComponentId |->
                IF truthyName(layout[1].footerComponent)
                THEN resolveComponentIdFromList(createdComponents,
                                                layout[1].footerComponent[1])
                ELSE Undefined ])

\* regeneration that accepts an empty batch (mutant of regenerateError)
regenerateError_allowEmpty(st, sessionId, createdComponents) == Undefined

\* lines 316-321 and 344-349: the error executeRegenerate returns, if any
regenerateError(st, sessionId, createdComponents) ==
  IF Len(createdComponents) = 0 THEN Some("Failed to create any components")
  ELSE IF ~composeValid(st, sessionId,
                        regenerateOrder(st, sessionId, createdComponents))
       THEN Some("Failed to compose screen")
       ELSE Undefined

\* the arguments of a composeScreen call, none when the call is not made
composeArgs(made, componentIds, layout, layoutConfig) ==
  IF made
  THEN Some([componentIds |-> componentIds, layout |-> layout,
             layoutConfig |-> layoutConfig])
  ELSE Undefined

\* lines 316-342: the composeScreen call executeRegenerate makes, if any
regenerateCompose(st, sessionId, createdComponents, layout) ==
  composeArgs(Len(createdComponents) > 0,
              regenerateOrder(st, sessionId, createdComponents),
              IF IsDef(layout) THEN layout[1].type ELSE "stack",
              regenerateLayoutConfig(layout, createdComponents))

\* the store after the composeScreen call `a` of a batch, if it is made
applyCompose(st, sessionId, a) ==
  IF IsDef(a)
  THEN composeScreen(st, sessionId, a[1].componentIds, a[1].layout, a[1].layoutConfig)
  ELSE st

\* the composeScreen call of a batch as the call record keeps it: its
\* arguments, the composition it found and whether it succeeded
composeRecord(st, sessionId, a) ==
  IF IsDef(a)
  THEN Some([ componentIds |-> a[1].componentIds, layout |-> a[1].layout,
              layoutConfig |-> a[1].layoutConfig,
              prior |-> st[sessionId].screen,
              success |-> composeValid(st, sessionId, a[1].componentIds) ])
  ELSE Undefined

\* what a batch leaves after its join: the store, the error it returns and
\* the composeScreen call it made
batchOutcome(st, sessionId, a, error) ==
  [ store |-> applyCompose(st, sessionId, a), error |-> error,
    composed |-> composeRecord(st, sessionId, a) ]

\* lines 304-351, after the join
executeRegenerate(st, sessionId, ops, layout) ==
  batchOutcome(st, sessionId,
               regenerateCompose(st, sessionId, dataOf(ops, "create"), layout),
               regenerateError(st, sessionId, dataOf(ops, "create")))

\* ------------------------------------------------------------------------
\* executeUpdate (src/lib/agent/index.ts lines 358-481)
\* ------------------------------------------------------------------------
\* updates that stop at the first reference that does not resolve (mutant
\* of updateOpsOf)
updateOpsOf_stopAtUnresolved(st, sessionId, updates) ==
  IF updates = <<>> \/ ~IsDef(resolveComponentId(st, sessionId, Head(updates).componentId))
  THEN <<>>
  ELSE <<updateOp(st, sessionId,
                  resolveComponentId(st, sessionId, Head(updates).componentId)[1],
                  Head(updates).changeDescription)>>

RECURSIVE updateOpsOf(_, _, _)
\* lines 372-391: one op per update whose reference resolves
updateOpsOf(st, sessionId, updates) ==
  IF updates = <<>> THEN <<>>
  ELSE LET componentId == resolveComponentId(st, sessionId, Head(updates).componentId)
       IN (IF IsDef(componentId)
           THEN <<updateOp(st, sessionId, componentId[1],
                           Head(updates).changeDescription)>>
           ELSE <<>>)
          \o updateOpsOf(st, sessionId, Tail(updates))

\* lines 394-409
createOpsOf(specs) == [i \in 1..Len(specs) |-> createOp(specs[i])]

\* lines 427: decision.layout?.type || session.screen?.layout || 'stack'
updateLayoutType(session, decision) ==
  IF IsDef(decision.layout) THEN decision.layout[1].type
  ELSE IF IsDef(session.screen) THEN session.screen[1].layout
  ELSE "stack"

\* session.screen?.layoutConfig?.<role>
currentBinding(session, role) ==
  IF IsDef(session.screen) /\ IsDef(session.screen[1].layoutConfig)
  THEN session.screen[1].layoutConfig[1][role]
  ELSE Undefined

\* lines 421-438
updateLayoutConfig(session, decision, newComponents) ==
  LET allComponents == session.components \o newComponents
  IN IF ~IsDef(decision.layout)
     THEN IF IsDef(session.screen) THEN session.screen[1].layoutConfig ELSE Undefined
     ELSE Some([ sidebarComponentId |->
                   IF truthyName(decision.layout[1].sidebarComponent)
                   THEN resolveComponentIdFromList(allComponents,
                                                   decision.layout[1].sidebarComponent[1])
                   ELSE currentBinding(session, "sidebarComponentId"),
                 headerComponentId |->
                   IF truthyName(decision.layout[1].headerComponent)
                   THEN resolveComponentIdFromList(allComponents,
                                                   decision.layout[1].headerComponent[1])
                   ELSE currentBinding(session, "headerComponentId"),
                 footerComponentId |->
                   IF truthyName(decision.layout[1].footerComponent)
                   THEN resolveComponentIdFromList(allComponents,
                                                   decision.layout[1].footerComponent[1])
                   ELSE currentBinding(session, "footerComponentId") ])

RECURSIVE orderedIdsOf_reversed(_, _, _, _)
\* an order resolved back to front (mutant of orderedIdsOf)
orderedIdsOf_reversed(st, sessionId, newComponents, screenOrder) ==
  IF screenOrder = <<>> THEN <<>>
  ELSE LET nameOrId == Head(screenOrder)
           newComp == IF nameOrId.shape = "text"
                      THEN resolveComponentIdFromList(newComponents, nameOrId.text)
                      ELSE Undefined
           id == IF IsDef(newComp) THEN newComp
                 ELSE resolveComponentId(st, sessionId, nameOrId)
       IN orderedIdsOf_reversed(st, sessionId, newComponents, Tail(screenOrder)) \o id

RECURSIVE orderedIdsOf(_, _, _, _)
\* lines 442-462: a new unit of that name first, then the reference resolver
orderedIdsOf(st, sessionId, newComponents, screenOrder) ==
  IF screenOrder = <<>> THEN <<>>
  ELSE LET nameOrId == Head(screenOrder)
           newComp == IF nameOrId.shape = "text"
                      THEN resolveComponentIdFromList(newComponents, nameOrId.text)
                      ELSE Undefined
           id == IF IsDef(newComp) THEN newComp
                 ELSE resolveComponentId(st, sessionId, nameOrId)
       IN id \o orderedIdsOf(st, sessionId, newComponents, Tail(screenOrder))

\* new units put before the existing order (mutant of updateOrder)
updateOrder_newFirst(st, sessionId, decision, newComponents) ==
  IF IsDef(decision.screenOrder) /\ Len(decision.screenOrder[1]) > 0
  THEN IF Len(orderedIdsOf(st, sessionId, newComponents, decision.screenOrder[1])) > 0
       THEN Some(orderedIdsOf(st, sessionId, newComponents, decision.screenOrder[1]))
       ELSE Undefined
  ELSE IF Len(newComponents) > 0 /\ IsDef(st[sessionId].screen)
       THEN Some([i \in 1..Len(newComponents) |-> newComponents[i].id]
                 \o st[sessionId].screen[1].componentIds)
  ELSE IF Len(newComponents) > 0
       THEN Some([i \in 1..Len(newComponents) |-> newComponents[i].id])
  ELSE IF IsDef(decision.layout) /\ IsDef(st[sessionId].screen)
       THEN Some(st[sessionId].screen[1].componentIds)
  ELSE Undefined

\* a batch that always composes again when there is a composition (mutant
\* of updateOrder)
updateOrder_recompose(st, sessionId, decision, newComponents) ==
  IF IsDef(decision.screenOrder) /\ Len(decision.screenOrder[1]) > 0
  THEN IF Len(orderedIdsOf(st, sessionId, newComponents, decision.screenOrder[1])) > 0
       THEN Some(orderedIdsOf(st, sessionId, newComponents, decision.screenOrder[1]))
       ELSE Undefined
  ELSE IF Len(newComponents) > 0 /\ IsDef(st[sessionId].screen)
       THEN Some(st[sessionId].screen[1].componentIds
                 \o [i \in 1..Len(newComponents) |-> newComponents[i].id])
  ELSE IF Len(newComponents) > 0
       THEN Some([i \in 1..Len(newComponents) |-> newComponents[i].id])
  ELSE IF IsDef(st[sessionId].screen)
       THEN Some(st[sessionId].screen[1].componentIds)
  ELSE Undefined

\* lines 441-478: the identifier list of the composeScreen call executeUpdate
\* makes, undefined when it makes none
updateOrder(st, sessionId, decision, newComponents) ==
  IF IsDef(decision.screenOrder) /\ Len(decision.screenOrder[1]) > 0
  THEN IF Len(orderedIdsOf(st, sessionId, newComponents, decision.screenOrder[1])) > 0
       THEN Some(orderedIdsOf(st, sessionId, newComponents, decision.screenOrder[1]))
       ELSE Undefined
  ELSE IF Len(newComponents) > 0 /\ IsDef(st[sessionId].screen)
       THEN Some(st[sessionId].screen[1].componentIds
                 \o [i \in 1..Len(newComponents) |-> newComponents[i].id])
  ELSE IF Len(newComponents) > 0
       THEN Some([i \in 1..Len(newComponents) |-> newComponents[i].id])
  ELSE IF IsDef(decision.layout) /\ IsDef(st[sessionId].screen)
       THEN Some(st[sessionId].screen[1].componentIds)
  ELSE Undefined

\* an optional list as a list
listOf(o) == IF IsDef(o) THEN o[1] ELSE <<>>

\* lines 417-478: the composeScreen call executeUpdate makes, if any
updateCompose(st, sessionId, decision, newComponents) ==
  composeArgs(IsDef(updateOrder(st, sessionId, decision, newComponents)),
              listOf(updateOrder(st, sessionId, decision, newComponents)),
              updateLayoutType(st[sessionId], decision),
              updateLayoutConfig(st[sessionId], decision, newComponents))

\* lines 417-480, after the join
executeUpdate(st, sessionId, decision, ops) ==
  batchOutcome(st, sessionId,
               updateCompose(st, sessionId, decision, dataOf(ops, "create")),
               Undefined)

\* ------------------------------------------------------------------------
\* runAgent (src/lib/agent/index.ts lines 487-585)
\* ------------------------------------------------------------------------
\* a regeneration that keeps what is there (mutant of clearForRegenerate)
clearForRegenerate_keep(st, sessionId) == st

\* lines 528-529
clearForRegenerate(st, sessionId) ==
  [st EXCEPT ![sessionId].components = <<>>, ![sessionId].screen = Undefined]

failure(sessionId, message) ==
  [success |-> FALSE, error |-> Some(message), session |-> Some(sessionId)]

\* lines 533-567: the store and the call record at the return, given what
\* the batch left
returnAfter(call, outcome) ==
  IF IsDef(outcome.error)
  THEN [ store |-> outcome.store,
         call |-> [call EXCEPT
                     !.pc = "done",
                     !.result = Some(failure(call.actualSessionId, outcome.error[1])),
                     !.composed = outcome.composed] ]
  ELSE [ store |-> recordSuccess(outcome.store, call),
         call |-> [call EXCEPT
                     !.pc = "done",
                     !.result = Some([success |-> TRUE, error |-> Undefined,
                                      session |-> Some(call.actualSessionId)]),
                     !.composed = outcome.composed] ]

\* lines 531-567, from the join of the batch to the return.  The
\* continuation runs without yielding.
finishCall(st, call) ==
  returnAfter(call,
    IF call.decision[1].action = "REGENERATE_SCREEN"
    THEN executeRegenerate(st, call.actualSessionId, call.ops, call.decision[1].layout)
    ELSE executeUpdate(st, call.actualSessionId, call.decision[1], call.ops))

\* a join that gives up at the first failure (mutant of afterSettle)
afterSettle_failFast(st, call) ==
  IF allSettled(call.ops) \/ \E i \in 1..Len(call.ops) : call.ops[i].status = "rejected"
  THEN finishCall(st, call)
  ELSE [store |-> st, call |-> [call EXCEPT !.pc = "executing"]]

\* a join that resumes only once every op is fulfilled, so that a failed
\* generation leaves the call waiting (mutant of afterSettle)
afterSettle_untilFulfilled(st, call) ==
  IF \A i \in 1..Len(call.ops) : call.ops[i].status = "fulfilled"
  THEN finishCall(st, call)
  ELSE [store |-> st, call |-> [call EXCEPT !.pc = "executing"]]

\* the call once all its ops have settled, or still waiting for some
afterSettle(st, call) ==
  IF allSettled(call.ops)
  THEN finishCall(st, call)
  ELSE [store |-> st, call |-> [call EXCEPT !.pc = "executing"]]

\* the step of call c that leaves the store and the call record of `next`
Becomes(c, next) ==
  /\ store' = next.store
  /\ calls' = [calls EXCEPT ![c] = next.call]

\* a dispatch that clears the session before it looks at the regeneration
\* specs (mutant of beginExecute)
beginExecute_clearFirst(st, call, d, sid) ==
  IF d.action = "REGENERATE_SCREEN"
  THEN IF ~IsDef(d.regenerateSpecs) \/ Len(d.regenerateSpecs[1]) = 0
       THEN [ store |-> clearForRegenerate(st, sid),
              call |-> [call EXCEPT
                !.pc = "done",
                !.result = Some(failure(sid,
                             "REGENERATE_SCREEN requires regenerateSpecs"))] ]
       ELSE [ store |-> clearForRegenerate(st, sid),
              call |-> [call EXCEPT !.pc = "executing",
                                    !.ops = createOpsOf(d.regenerateSpecs[1])] ]
  ELSE IF sid \notin DOMAIN st
       THEN [ store |-> st,
              call |-> [call EXCEPT !.pc = "done",
                                    !.result = Some(failure(sid, "Session not found"))] ]
       ELSE afterSettle(st,
              [call EXCEPT !.ops =
                 updateOpsOf(st, sid, OrElse(d.updates, <<>>))
                 \o createOpsOf(OrElse(d.newComponents, <<>>))])

\* lines 512-552, from the decision to the first await of the batch
beginExecute(st, call, d, sid) ==
  IF d.action = "REGENERATE_SCREEN"
  THEN IF ~IsDef(d.regenerateSpecs) \/ Len(d.regenerateSpecs[1]) = 0
       THEN [ store |-> st,
              call |-> [call EXCEPT
                !.pc = "done",
                !.result = Some(failure(sid,
                             "REGENERATE_SCREEN requires regenerateSpecs"))] ]
       ELSE [ store |-> clearForRegenerate(st, sid),
              call |-> [call EXCEPT !.pc = "executing",
                                    !.ops = createOpsOf(d.regenerateSpecs[1])] ]
  ELSE IF sid \notin DOMAIN st
       THEN [ store |-> st,
              call |-> [call EXCEPT !.pc = "done",
                                    !.result = Some(failure(sid, "Session not found"))] ]
       ELSE afterSettle(st,
              [call EXCEPT !.ops =
                 updateOpsOf(st, sid, OrElse(d.updates, <<>>))
                 \o createOpsOf(OrElse(d.newComponents, <<>>))])

\* the call record once the service's output validated: the decision is
\* normalized (makeDecision lines 212 and 238)
decided(call, validated) ==
  [call EXCEPT
     !.validated = Some(validated),
     !.decision = Some(normalizeDecision(validated, call.hasExistingComponents,
                                         call.prompt))]

\* runAgent lines 510-552 for a call record holding its decision
execute(st, call) == beginExecute(st, call, call.decision[1], call.actualSessionId)

\* the session identifiers a client may send: none, one in the store, or
\* one that is not in the store (0)
SessionArgs == {Undefined, Some(0)} \cup {Some(s) : s \in DOMAIN store}

Quiescent == \A c \in Slots : calls[c].pc = "idle"

\* lines 491-509 and 161-201: the call up to its first reasoning request
StartCall(c, prompt, sessionId) ==
  /\ calls[c].pc = "idle"
  /\ ncalls < MaxCalls
  /\ LET sid == getOrCreateSessionId(store, sessionId)
         st1 == addMessage(getOrCreateSession(store, sessionId), sid, "user",
                           <<NameRef(prompt)>>)
     IN /\ store' = st1
        /\ calls' = [calls EXCEPT ![c] =
             [IdleCall EXCEPT
                !.pc = "deciding", !.callNo = ncalls + 1, !.prompt = prompt,
                !.sessionId = sessionId, !.actualSessionId = sid,
                !.hasExistingComponents = Len(st1[sid].components) > 0,
                !.screenOrder = screenOrderNames(st1[sid]),
                !.requests = 1,
                !.userMessage = Some(userMessageOf(st1[sid], prompt)),
                !.sent = <<firstRequest(userMessageOf(st1[sid], prompt))>>,
                !.before = store]]
  /\ ncalls' = ncalls + 1
  /\ UNCHANGED <<clock, env>>

\* handlePrompt, one call at a time
HandlePrompt ==
  \E prompt \in Prompts, sessionId \in SessionArgs :
    /\ Quiescent
    /\ StartCall(1, prompt, sessionId)

\* lines 193-207 and 218-234: the reasoning request fails or has no content
ReasoningFails(c) ==
  /\ calls[c].pc \in {"deciding", "retrying"}
  /\ \E message \in {"reasoning service error", "No content in response"} :
       calls' = [calls EXCEPT ![c].pc = "done",
                   ![c].result = Some(catchResult(store, calls[c].sessionId, message))]
  /\ UNCHANGED <<store, ncalls, clock, env>>

\* lines 214-228: the first output does not validate; one retry is issued
FirstOutputInvalid(c) ==
  /\ calls[c].pc = "deciding"
  /\ \E content \in InvalidOutputs :
       calls' = [calls EXCEPT
                   ![c].pc = "retrying", ![c].requests = @ + 1,
                   ![c].sent = Append(@, retryRequest(calls[c].userMessage[1], content))]
  /\ UNCHANGED <<store, ncalls, clock, env>>

\* lines 240-244: the retry's output does not validate either
RetryOutputInvalid(c) ==
  /\ calls[c].pc = "retrying"
  /\ calls' = [calls EXCEPT ![c].pc = "done",
                 ![c].result = Some(catchResult(store, calls[c].sessionId,
                                      "Failed to parse agent decision after retry"))]
  /\ UNCHANGED <<store, ncalls, clock, env>>

\* lines 210-213 and 236-239, then runAgent lines 510-552: a valid output is
\* normalized and its execution begins
OutputValid(c) ==
  /\ calls[c].pc \in {"deciding", "retrying"}
  /\ \E validated \in service :
       Becomes(c, execute(store, decided(calls[c], validated)))
  /\ UNCHANGED <<ncalls, clock, env>>

\* the descriptions the generation call of an op may return
descriptionsFor(op) == IF op.kind = "update" THEN GenDescriptions ELSE {""}

\* tools.ts lines 275-281 and 323-328: the component a generation call that
\* returned valid output makes
generated(op, id, generatedDescription, now) ==
  IF op.kind = "create"
  THEN createdComponent(op, id, generatedDescription, now)
  ELSE updatedComponent(op, generatedDescription, now)

\* an update generated from the unit as it is when the generation call
\* returns, not as it was when the update was issued (mutant of stored)
stored_onCurrent(st, call, i, component) ==
  afterSettle(upsertComponent(st, call.actualSessionId,
                IF call.ops[i].kind = "update"
                THEN [component EXCEPT !.html.from =
                        getComponent(st, call.actualSessionId, component.id)[1].html.gen]
                ELSE component),
              [call EXCEPT !.ops[i].status = "fulfilled",
                           !.ops[i].data = Some(component)])

\* tools.ts lines 283-289 and 330-336: the component is stored and op i of
\* the call settles; a store without the session refuses it
stored(st, call, i, component) ==
  afterSettle(upsertComponent(st, call.actualSessionId, component),
              IF call.actualSessionId \in DOMAIN st
              THEN [call EXCEPT !.ops[i].status = "fulfilled",
                                !.ops[i].data = Some(component)]
              ELSE [call EXCEPT !.ops[i].status = "rejected"])

\* tools.ts lines 275-289 and 323-336: a generation call returns valid output
GenerationSucceeds(c, i) ==
  /\ calls[c].pc = "executing"
  /\ i \in 1..Len(calls[c].ops)
  /\ calls[c].ops[i].status = "pending"
  /\ \E generatedDescription \in descriptionsFor(calls[c].ops[i]) :
       Becomes(c, stored(store, calls[c], i,
                         generated(calls[c].ops[i], NewComponentId(calls[c].callNo, i),
                                   generatedDescription, DateNow)))
  /\ clock' = clock + 1
  /\ UNCHANGED <<ncalls, env>>

\* a failure that leaves a half-written unit behind (mutant of failed)
failed_partialWrite(st, call, i) ==
  afterSettle(
    upsertComponent(st, call.actualSessionId,
      IF call.ops[i].kind = "create"
      THEN createdComponent(call.ops[i], NewComponentId(call.callNo, i), "", 0)
      ELSE [call.ops[i].existing[1] EXCEPT
              !.html = [gen |-> 0, from |-> @.gen, change |-> call.ops[i].change]]),
    [call EXCEPT !.ops[i].status = "rejected"])

\* tools.ts lines 290-295 and 337-342: the generation call of op i throws;
\* nothing is stored and the op settles as a failure
failed(st, call, i) == afterSettle(st, [call EXCEPT !.ops[i].status = "rejected"])

\* tools.ts lines 290-295 and 337-342: a generation call fails
GenerationFails(c, i) ==
  /\ calls[c].pc = "executing"
  /\ i \in 1..Len(calls[c].ops)
  /\ calls[c].ops[i].status = "pending"
  /\ Becomes(c, failed(store, calls[c], i))
  /\ UNCHANGED <<ncalls, clock, env>>

\* the result is delivered to the caller
Return(c) ==
  /\ calls[c].pc = "done"
  /\ calls' = [calls EXCEPT ![c] = IdleCall]
  /\ UNCHANGED <<store, ncalls, clock, env>>

\* src/app/api/reset/route.ts lines 17, 38 and 57: the session of a response
\* that has no session to show, under the identifier `id`
BlankSession(id) ==
  [id |-> id, messages |-> <<>>, components |-> <<>>, screen |-> Undefined]

\* src/app/api/reset/route.ts lines 10-62: the store after a POST with that
\* session identifier, and the response
resetRoute(st, sessionId) ==
  IF ~IsDef(sessionId)
  THEN [ store |-> st,
         response |-> [ status |-> 400, success |-> FALSE,
                        session |-> BlankSession(Undefined),
                        error |-> Some("Session ID is required") ] ]
  ELSE IF sessionId[1] \notin DOMAIN st
       THEN [ store |-> st,
              response |-> [ status |-> 404, success |-> FALSE,
                             session |-> BlankSession(Undefined),
                             error |-> Some("Session not found") ] ]
       ELSE [ store |-> resetSession(st, sessionId[1]),
              response |->
                [ status |-> 200, success |-> TRUE,
                  session |->
                    IF sessionId[1] \in DOMAIN resetSession(st, sessionId[1])
                    THEN serializeSession(resetSession(st, sessionId[1]), sessionId[1])
                    ELSE BlankSession(sessionId),
                  error |-> Undefined ] ]

\* src/app/api/reset/route.ts lines 26-49, between two calls
Reset ==
  \E sessionId \in DOMAIN store :
    /\ Quiescent
    /\ store' = resetRoute(store, Some(sessionId)).store
    /\ store' # store
    /\ UNCHANGED <<calls, ncalls, clock, env>>

\* the most generation calls one batch of the model issues
OpIndexes == 1..3

Init ==
  /\ store = <<>>
  /\ calls = [c \in Slots |-> IdleCall]
  /\ ncalls = 0
  /\ clock = 1
  /\ service \in Repertoires
  /\ normIn = Undefined
  /\ normOut = Undefined
  /\ resolved = NoneResolved
  /\ resets = <<>>
  /\ page = InitialPage

Next ==
  \/ HandlePrompt
  \/ \E c \in Slots : ReasoningFails(c)
  \/ \E c \in Slots : FirstOutputInvalid(c)
  \/ \E c \in Slots : RetryOutputInvalid(c)
  \/ \E c \in Slots : OutputValid(c)
  \/ \E c \in Slots, i \in OpIndexes : GenerationSucceeds(c, i)
  \/ \E c \in Slots, i \in OpIndexes : GenerationFails(c, i)
  \/ \E c \in Slots : Return(c)
  \/ Reset

Spec == Init /\ [][Next]_vars

\* ------------------------------------------------------------------------
\* Requests in flight together.  runAgent is an async function and the
\* store takes no lock: between two awaits of one call, any step of another
\* call or a reset may run.
\* ------------------------------------------------------------------------
\* handlePrompt, whatever else is in flight
HandlePromptConc ==
  \E c \in Slots, prompt \in Prompts, sessionId \in SessionArgs :
    StartCall(c, prompt, sessionId)

\* src/app/api/reset/route.ts lines 26-49, whatever else is in flight
ResetConc ==
  \E sessionId \in DOMAIN store :
    /\ store' = resetRoute(store, Some(sessionId)).store
    /\ store' # store
    /\ UNCHANGED <<calls, ncalls, clock, env>>

InitConc ==
  /\ store = <<>>
  /\ calls = [c \in Slots |-> IdleCall]
  /\ ncalls = 0
  /\ clock = 1
  /\ service = BatchDecisions
  /\ normIn = Undefined
  /\ normOut = Undefined
  /\ resolved = NoneResolved
  /\ resets = <<>>
  /\ page = InitialPage

NextConc ==
  \/ HandlePromptConc
  \/ \E c \in Slots : ReasoningFails(c)
  \/ \E c \in Slots : FirstOutputInvalid(c)
  \/ \E c \in Slots : RetryOutputInvalid(c)
  \/ \E c \in Slots : OutputValid(c)
  \/ \E c \in Slots, i \in OpIndexes : GenerationSucceeds(c, i)
  \/ \E c \in Slots, i \in OpIndexes : GenerationFails(c, i)
  \/ \E c \in Slots : Return(c)
  \/ ResetConc

SpecConc == InitConc /\ [][NextConc]_vars

\* ------------------------------------------------------------------------
\* normalizeDecision on its own: the inputs are drawn, the function applied
\* ------------------------------------------------------------------------
NormRationales ==
  {RationalePlain, RationaleExplicit, RationaleBranch, RationaleBoth, <<>>}

NormPrompts == {PromptPlain, PromptBranch, PromptExplicit}

NormUpdates ==
  { Undefined,
    Some(<<[componentId |-> NameRef(<<"header">>), changeDescription |-> "make it blue"]>>) }

NormSpecLists ==
  { Undefined, Some(<<>>), Some(<<SpecHero>>), Some(<<SpecHeader, SpecHero>>) }

NormOrders ==
  { Undefined, Some(<<>>), Some(<<NameRef(<<"Header">>), NameRef(<<"Footer">>)>>),
    Some(<<NameRef(<<"Hero">>)>>) }

NormLayouts ==
  { Undefined, Some(LayoutSpec("grid-2", Undefined, Undefined, Undefined)) }

NormDecisions ==
  [ action : {"REGENERATE_SCREEN", "UPDATE_COMPONENTS"},
    rationale : NormRationales,
    createBranch : {Undefined, Some(TRUE), Some(FALSE)},
    updates : NormUpdates,
    newComponents : NormSpecLists,
    screenOrder : NormOrders,
    regenerateSpecs : NormSpecLists,
    layout : NormLayouts ]

InitNorm ==
  /\ store = <<>>
  /\ calls = [c \in Slots |-> IdleCall]
  /\ ncalls = 0
  /\ clock = 0
  /\ service = {}
  /\ normIn \in { Some([decision |-> d, hasExistingComponents |-> h, userPrompt |-> p]) :
                     d \in NormDecisions, h \in BOOLEAN, p \in NormPrompts }
  /\ normOut = Undefined
  /\ resolved = NoneResolved
  /\ resets = <<>>
  /\ page = InitialPage

Normalize ==
  /\ IsDef(normIn)
  /\ ~IsDef(normOut)
  /\ normOut' = Some(normalizeDecision(normIn[1].decision,
                                       normIn[1].hasExistingComponents,
                                       normIn[1].userPrompt))
  /\ UNCHANGED <<store, calls, ncalls, clock, service, normIn, resolved, resets, page>>

NextNorm == Normalize

SpecNorm == InitNorm /\ [][NextNorm]_vars

\* ------------------------------------------------------------------------
\* resolveComponentId on its own: a session with units is drawn, references
\* are resolved against it, and a screen is composed from the results
\* ------------------------------------------------------------------------
\* the most units of the session
MaxUnits == 3

\* the most references resolved in one behaviour
MaxResolves == 2

ResolveNames == {<<"Header">>, <<"Header", "Section">>, <<"Footer">>}

\* the unit mappings of the session: units in insertion order, the i-th
\* created as op i of the first call
ResolveUnits ==
  UNION { { [i \in 1..n |->
               createdComponent(createOp(UnitSpec(names[i], "")),
                                NewComponentId(1, i), "", 0)] :
            names \in [1..n -> ResolveNames] } : n \in 0..MaxUnits }

\* references: free text in several cases, the identifier of the first
\* unit, and an identifier no unit has
ResolveReferences ==
  { NameRef(<<"header">>), NameRef(<<"HEADER">>), NameRef(<<"Header">>),
    NameRef(<<"Section">>), NameRef(<<"section", "header">>), NameRef(<<"Hero">>),
    IdRef(NewComponentId(1, 1)), GhostRef }

InitResolve ==
  /\ store \in { (1 :> [EmptySession EXCEPT !.components = cs]) : cs \in ResolveUnits }
  /\ calls = [c \in Slots |-> IdleCall]
  /\ ncalls = 0
  /\ clock = 0
  /\ service = {}
  /\ normIn = Undefined
  /\ normOut = Undefined
  /\ resolved = NoneResolved
  /\ resets = <<>>
  /\ page = InitialPage

\* index.ts lines 252-265: one call of resolveComponentId
Resolve(reference) ==
  /\ Len(resolved.log) < MaxResolves
  /\ resolved.composed = "none"
  /\ resolved' = [resolved EXCEPT !.log =
                    Append(@, [ reference |-> reference,
                                result |-> resolveComponentId(store, 1, reference) ])]
  /\ UNCHANGED <<store, calls, ncalls, clock, service, normIn, normOut, resets, page>>

RECURSIVE resolvedIds(_)
\* index.ts lines 457-463: the references that resolved, in order
resolvedIds(log) ==
  IF log = <<>> THEN <<>>
  ELSE (IF IsDef(Head(log).result) THEN <<Head(log).result[1]>> ELSE <<>>)
       \o resolvedIds(Tail(log))

\* index.ts lines 465-467: the screen is composed from the resolved ids
ComposeResolved ==
  /\ resolved.composed = "none"
  /\ resolvedIds(resolved.log) # <<>>
  /\ store' = composeScreen(store, 1, resolvedIds(resolved.log), "stack", Undefined)
  /\ resolved' = [resolved EXCEPT !.composed =
                    IF composeValid(store, 1, resolvedIds(resolved.log))
                    THEN "accepted" ELSE "rejected"]
  /\ UNCHANGED <<calls, ncalls, clock, service, normIn, normOut, resets, page>>

NextResolve ==
  \/ \E reference \in ResolveReferences : Resolve(reference)
  \/ ComposeResolved

SpecResolve == InitResolve /\ [][NextResolve]_vars

\* ------------------------------------------------------------------------
\* The reset route on its own: a store with sessions that have been worked
\* on is drawn, reset requests arrive, and time passes between them
\* ------------------------------------------------------------------------
\* the most requests to the reset route in one behaviour
MaxResets == 2

\* the time up to which the clock is followed
MaxClock == 3

\* a decision that was carried out on a session
ResetDecision ==
  [Decision("REGENERATE_SCREEN", RationalePlain) EXCEPT
     !.regenerateSpecs = Some(<<SpecHeader>>)]

\* the store after one call has left session sessionId with the units
\* `units`, composed in their order, a message and an audit entry
worked(st, sessionId, units) ==
  addDecisionToHistory(
    composeScreen(
      [addMessage(st, sessionId, "user", <<NameRef(PromptPlain)>>)
         EXCEPT ![sessionId].components = units],
      sessionId, [i \in 1..Len(units) |-> units[i].id], "stack", Undefined),
    sessionId, 1, PromptPlain, ResetDecision, getComponentsAffected(ResetDecision))

\* the stores a reset request may find: a first session, new or worked on,
\* and possibly a second, new one
ResetStores ==
  LET one == {createSession(<<>>)}
             \cup {worked(createSession(<<>>), 1, units) : units \in ResolveUnits}
  IN one \cup {createSession(st) : st \in one}

InitReset ==
  /\ clock = 1
  /\ store \in ResetStores
  /\ calls = [c \in Slots |-> IdleCall]
  /\ ncalls = 0
  /\ service = {}
  /\ normIn = Undefined
  /\ normOut = Undefined
  /\ resolved = NoneResolved
  /\ resets = <<>>
  /\ page = InitialPage

\* src/app/api/reset/route.ts lines 10-62: one request to the route
PostReset(sessionId) ==
  /\ Len(resets) < MaxResets
  /\ store' = resetRoute(store, sessionId).store
  /\ resets' = Append(resets, [ request |-> sessionId, at |-> DateNow,
                                response |-> resetRoute(store, sessionId).response ])
  /\ UNCHANGED <<calls, ncalls, clock, service, normIn, normOut, resolved, page>>

\* time passes
Tick ==
  /\ clock < MaxClock
  /\ clock' = clock + 1
  /\ UNCHANGED <<store, calls, ncalls, service, normIn, normOut, resolved, resets, page>>

\* the session identifiers a request may carry: none, one no session has,
\* and those of the sessions the store began with
ResetArgs == {Undefined} \cup {Some(id) : id \in 0..2}

NextReset ==
  \/ \E sessionId \in ResetArgs : PostReset(sessionId)
  \/ Tick

SpecReset == InitReset /\ [][NextReset]_vars

\* ------------------------------------------------------------------------
\* The page in the browser (src/app/page.tsx): the frames of the canvas.  A
\* frame is its identifier, its composition, the addresses of the unit
\* objects of its snapshot and its parent frame; its name, position and size
\* play no part in what it holds.  The server is seen from the page: per
\* session, the units of its composition (none when it has no composition)
\* and the length of its audit log.
\* ------------------------------------------------------------------------
MaxSubmits == 3

MaxDuplicates == 1

MaxPageResets == 1

\* the designs a session's composition may hold after a successful call
PageDesigns ==
  { <<[id |-> 11, html |-> 1]>>,
    <<[id |-> 11, html |-> 2], [id |-> 12, html |-> 1]>> }

\* what runAgent may do with a request for a session that holds `prior`: fail
\* with a message, regenerate (the session then has a composition), or
\* update (a session without units and composition may stay so)
Outcomes(prior) ==
  [ success : {FALSE},
    error : {<<"Failed", "to", "create", "any", "components">>,
             <<"model", "not", "found">>},
    action : {"none"}, createBranch : {Undefined}, units : {prior} ]
  \cup
  [ success : {TRUE}, error : {<<>>}, action : {"REGENERATE_SCREEN"},
    createBranch : {Undefined, Some(TRUE)}, units : PageDesigns ]
  \cup
  [ success : {TRUE}, error : {<<>>}, action : {"UPDATE_COMPONENTS"},
    createBranch : {Undefined, Some(TRUE)}, units : PageDesigns \cup {prior} ]

\* the session a request with that identifier runs against: the one named
\* when the server has it, else a new one
servedSession(sessions, sessionId) ==
  IF IsDef(sessionId) /\ sessionId[1] \in 1..Len(sessions) THEN sessionId[1]
  ELSE Len(sessions) + 1

\* the server's sessions after the request, and the response
serve(sessions, sessionId, outcome) ==
  LET target == servedSession(sessions, sessionId)
      grown == IF target > Len(sessions)
               THEN Append(sessions, [units |-> <<>>, log |-> 0])
               ELSE sessions
  IN IF ~outcome.success
     THEN [ sessions |-> grown,
            response |->
              [ success |-> FALSE, error |-> Some(outcome.error),
                agentDecision |-> Undefined,
                session |-> [ id |-> Undefined, screen |-> Undefined,
                              components |-> <<>>, decisionHistory |-> 0 ] ] ]
     ELSE [ sessions |-> [grown EXCEPT ![target] =
                            [units |-> outcome.units, log |-> @.log + 1]],
            response |->
              [ success |-> TRUE, error |-> Undefined,
                agentDecision |-> Some([ action |-> outcome.action,
                                         createBranch |-> outcome.createBranch ]),
                session |->
                  [ id |-> Some(target),
                    screen |->
                      IF outcome.units = <<>> THEN Undefined
                      ELSE Some([ componentIds |->
                                    [i \in 1..Len(outcome.units) |-> outcome.units[i].id],
                                  layout |-> "stack" ]),
                    components |-> outcome.units,
                    decisionHistory |-> grown[target].log + 1 ] ] ]

\* newComponents.map(c => ({ ...c })): the addresses of the copies, which are
\* put at the end of the heap
copiesAt(heap, units) == [i \in 1..Len(units) |-> Len(heap) + i]

\* lines 52-75
createFrameFromResponse(p, screen, newComponents, parentFrameId) ==
  [ id |-> p.made + 1, screen |-> screen,
    components |-> copiesAt(p.heap, newComponents),
    parentFrameId |-> parentFrameId ]

\* lines 93-175: handleSubmit from the response on; `closure` holds
\* sessionId, activeFrameId and frames as they were when the prompt was
\* submitted
applyResponse(p, closure, data) ==
  IF ~data.success
  THEN [p EXCEPT
          !.isLoading = FALSE, !.inFlight = Undefined,
          !.sessionId = IF includes(data.error[1], <<"Session">>)
                           \/ includes(data.error[1], <<"not", "found">>)
                        THEN Undefined ELSE @,
          !.error = IF includes(data.error[1], <<"Session">>)
                       \/ includes(data.error[1], <<"not", "found">>)
                    THEN Some(<<"Session", "expired">>) ELSE data.error]
  ELSE IF ~IsDef(data.session.screen)
  THEN [p EXCEPT
          !.isLoading = FALSE, !.inFlight = Undefined,
          !.sessionId = data.session.id,
          !.components = data.session.components,
          !.decisionHistory = data.session.decisionHistory]
  ELSE IF /\ data.agentDecision[1].action = "UPDATE_COMPONENTS"
          /\ IsDef(closure.activeFrameId) /\ Len(closure.frames) > 0
          /\ data.agentDecision[1].createBranch # Some(TRUE)
  THEN [p EXCEPT
          !.isLoading = FALSE, !.inFlight = Undefined,
          !.sessionId = data.session.id,
          !.components = data.session.components,
          !.decisionHistory = data.session.decisionHistory,
          !.heap = @ \o data.session.components,
          !.frames = [i \in 1..Len(@) |->
                        IF @[i].id = closure.activeFrameId[1]
                        THEN [@[i] EXCEPT
                                !.screen = data.session.screen[1],
                                !.components = copiesAt(p.heap, data.session.components)]
                        ELSE @[i]]]
  ELSE IF data.agentDecision[1].action = "REGENERATE_SCREEN" /\ Len(closure.frames) > 0
  THEN [p EXCEPT
          !.isLoading = FALSE, !.inFlight = Undefined,
          !.sessionId = data.session.id,
          !.components = data.session.components,
          !.decisionHistory = data.session.decisionHistory,
          !.heap = @ \o data.session.components,
          !.made = @ + 1,
          !.frames = <<createFrameFromResponse(p, data.session.screen[1],
                                               data.session.components, Undefined)>>,
          !.activeFrameId = Some(p.made + 1)]
  ELSE [p EXCEPT
          !.isLoading = FALSE, !.inFlight = Undefined,
          !.sessionId = data.session.id,
          !.components = data.session.components,
          !.decisionHistory = data.session.decisionHistory,
          !.heap = @ \o data.session.components,
          !.made = @ + 1,
          !.frames = Append(@,
             createFrameFromResponse(p, data.session.screen[1], data.session.components,
               IF data.agentDecision[1].createBranch = Some(TRUE)
               THEN closure.activeFrameId ELSE Undefined)),
          !.activeFrameId = Some(p.made + 1)]

\* lines 77-89: handleSubmit up to the request; the prompt box takes no
\* prompt while a request is in flight (PromptBox.tsx line 19)
HandleSubmit ==
  /\ ~page.isLoading
  /\ page.submits < MaxSubmits
  /\ page' = [page EXCEPT
                !.isLoading = TRUE, !.error = Undefined, !.submits = @ + 1,
                !.inFlight = Some([ sessionId |-> page.sessionId,
                                    activeFrameId |-> page.activeFrameId,
                                    frames |-> page.frames,
                                    response |-> Undefined ])]
  /\ UNCHANGED <<store, calls, ncalls, clock, service, normIn, normOut, resolved, resets>>

\* lines 85-91: the server runs the request and sends its response
ServerResponds ==
  /\ IsDef(page.inFlight)
  /\ ~IsDef(page.inFlight[1].response)
  /\ \E outcome \in Outcomes(
          IF servedSession(page.sessions, page.inFlight[1].sessionId) \in 1..Len(page.sessions)
          THEN page.sessions[servedSession(page.sessions, page.inFlight[1].sessionId)].units
          ELSE <<>>) :
       page' = [page EXCEPT
                  !.sessions = serve(@, page.inFlight[1].sessionId, outcome).sessions,
                  !.inFlight[1].response =
                    Some(serve(page.sessions, page.inFlight[1].sessionId, outcome).response)]
  /\ UNCHANGED <<store, calls, ncalls, clock, service, normIn, normOut, resolved, resets>>

\* lines 171-175: the request fails on its way
RequestFails ==
  /\ IsDef(page.inFlight)
  /\ ~IsDef(page.inFlight[1].response)
  /\ page' = [page EXCEPT !.isLoading = FALSE, !.inFlight = Undefined,
                          !.error = Some(<<"Network", "error">>)]
  /\ UNCHANGED <<store, calls, ncalls, clock, service, normIn, normOut, resolved, resets>>

\* lines 91-175: the response arrives
ResponseArrives ==
  /\ IsDef(page.inFlight)
  /\ IsDef(page.inFlight[1].response)
  /\ page' = applyResponse(page, page.inFlight[1], page.inFlight[1].response[1])
  /\ UNCHANGED <<store, calls, ncalls, clock, service, normIn, normOut, resolved, resets>>

\* lines 201-203
HandleFrameSelect(frameId) ==
  /\ \E i \in 1..Len(page.frames) : page.frames[i].id = frameId
  /\ page.activeFrameId # Some(frameId)
  /\ page' = [page EXCEPT !.activeFrameId = Some(frameId)]
  /\ UNCHANGED <<store, calls, ncalls, clock, service, normIn, normOut, resolved, resets>>

\* a duplicate that takes the unit objects of its source (mutant of
\* HandleFrameDuplicate)
HandleFrameDuplicate_shared(frameId) ==
  /\ page.duplicates < MaxDuplicates
  /\ \E i \in 1..Len(page.frames) :
       /\ page.frames[i].id = frameId
       /\ page' = [page EXCEPT
                     !.duplicates = @ + 1,
                     !.made = @ + 1,
                     !.frames = Append(@, [ page.frames[i] EXCEPT
                                  !.id = page.made + 1,
                                  !.parentFrameId = Some(frameId) ]),
                     !.activeFrameId = Some(page.made + 1)]
  /\ UNCHANGED <<store, calls, ncalls, clock, service, normIn, normOut, resolved, resets>>

\* lines 205-227
HandleFrameDuplicate(frameId) ==
  /\ page.duplicates < MaxDuplicates
  /\ \E i \in 1..Len(page.frames) :
       /\ page.frames[i].id = frameId
       /\ page' = [page EXCEPT
                     !.duplicates = @ + 1,
                     !.heap = @ \o [k \in 1..Len(page.frames[i].components) |->
                                      page.heap[page.frames[i].components[k]]],
                     !.made = @ + 1,
                     !.frames = Append(@, [ page.frames[i] EXCEPT
                                  !.id = page.made + 1,
                                  !.components = copiesAt(page.heap, page.frames[i].components),
                                  !.parentFrameId = Some(frameId) ]),
                     !.activeFrameId = Some(page.made + 1)]
  /\ UNCHANGED <<store, calls, ncalls, clock, service, normIn, normOut, resolved, resets>>

\* lines 229-235
HandleFrameDelete(frameId) ==
  /\ \E i \in 1..Len(page.frames) : page.frames[i].id = frameId
  /\ LET remaining == SelectSeq(page.frames, LAMBDA f : f.id # frameId)
     IN page' = [page EXCEPT
                   !.frames = remaining,
                   !.activeFrameId =
                     IF page.activeFrameId # Some(frameId) THEN @
                     ELSE IF Len(remaining) > 0 THEN Some(remaining[Len(remaining)].id)
                     ELSE Undefined]
  /\ UNCHANGED <<store, calls, ncalls, clock, service, normIn, normOut, resolved, resets>>

\* lines 178-197: handleReset up to the request to the reset route, or to
\* its end when the page has no session
HandleReset ==
  /\ page.resetClicks < MaxPageResets
  /\ ~IsDef(page.resetting)
  /\ page' = [page EXCEPT
                !.resetClicks = @ + 1,
                !.components = <<>>, !.frames = <<>>, !.activeFrameId = Undefined,
                !.decisionHistory = 0, !.error = Undefined,
                !.resetting = page.sessionId]
  /\ UNCHANGED <<store, calls, ncalls, clock, service, normIn, normOut, resolved, resets>>

\* lines 187-197: the request to the reset route returns, having reached the
\* server or not, and the page forgets its session
ResetReturns ==
  /\ IsDef(page.resetting)
  /\ \E reached \in BOOLEAN :
       page' = [page EXCEPT
                  !.resetting = Undefined,
                  !.sessionId = Undefined,
                  !.sessions = IF reached /\ page.resetting[1] \in 1..Len(@)
                               THEN [@ EXCEPT ![page.resetting[1]] = [units |-> <<>>, log |-> 0]]
                               ELSE @]
  /\ UNCHANGED <<store, calls, ncalls, clock, service, normIn, normOut, resolved, resets>>

InitFrames ==
  /\ store = <<>>
  /\ calls = [c \in Slots |-> IdleCall]
  /\ ncalls = 0
  /\ clock = 0
  /\ service = {}
  /\ normIn = Undefined
  /\ normOut = Undefined
  /\ resolved = NoneResolved
  /\ resets = <<>>
  /\ page = InitialPage

NextFrames ==
  \/ HandleSubmit
  \/ ServerResponds
  \/ RequestFails
  \/ ResponseArrives
  \/ \E frameId \in 1..(MaxSubmits + MaxDuplicates) : HandleFrameSelect(frameId)
  \/ \E frameId \in 1..(MaxSubmits + MaxDuplicates) : HandleFrameDuplicate(frameId)
  \/ \E frameId \in 1..(MaxSubmits + MaxDuplicates) : HandleFrameDelete(frameId)
  \/ HandleReset
  \/ ResetReturns

SpecFrames == InitFrames /\ [][NextFrames]_vars

\* ------------------------------------------------------------------------
\* Properties of normalizeDecision (checked under SpecNorm)
\* ------------------------------------------------------------------------
\* normalizeDecision has been applied to the drawn inputs
Normalized == IsDef(normIn) /\ IsDef(normOut)

\* the rationale holds no explicit-intent phrase
NoExplicitPhrase(rationale) ==
  \A kw \in explicitRegenKeywords : ~includes(toLowerCase(rationale), kw)

\* the case of the regeneration guard: existing units, a full regeneration,
\* no explicit-intent phrase in the rationale
GuardDowngrades ==
  /\ Normalized
  /\ normIn[1].hasExistingComponents
  /\ normIn[1].decision.action = "REGENERATE_SCREEN"
  /\ NoExplicitPhrase(normIn[1].decision.rationale)

\* the case of the passthrough: existing units, a full regeneration, an
\* explicit-intent phrase in the rationale
GuardAccepts ==
  /\ Normalized
  /\ normIn[1].hasExistingComponents
  /\ normIn[1].decision.action = "REGENERATE_SCREEN"
  /\ ~NoExplicitPhrase(normIn[1].decision.rationale)

\* the decision named no regeneration specs but carries specs in newComponents
SpecsMisplaced(decision) ==
  /\ OrElse(decision.regenerateSpecs, <<>>) = <<>>
  /\ OrElse(decision.newComponents, <<>>) # <<>>

\* C1, as stated: with existing units, a full-regeneration decision whose
\* rationale holds no explicit-intent phrase is returned as an
\* incremental-update decision whose new-units list is the regeneration
\* specs of the decision handed in, in the same order.
C1_AsStated ==
  GuardDowngrades =>
    /\ normOut[1].action = "UPDATE_COMPONENTS"
    /\ normOut[1].newComponents = Some(OrElse(normIn[1].decision.regenerateSpecs, <<>>))

\* C1, amended: with existing units, a full-regeneration decision whose
\* rationale holds no explicit-intent phrase is returned as an
\* incremental-update decision whose new-units list is, in the same order,
\* the regeneration specs of the decision handed in when it has any, and
\* otherwise the specs it carried in its new-units field.
C1_RegenerationGuard ==
  GuardDowngrades =>
    /\ normOut[1].action = "UPDATE_COMPONENTS"
    /\ normOut[1].newComponents =
         Some(IF SpecsMisplaced(normIn[1].decision)
              THEN normIn[1].decision.newComponents[1]
              ELSE OrElse(normIn[1].decision.regenerateSpecs, <<>>))

\* C1: a downgraded decision with two regeneration specs
C1_Witness ==
  /\ GuardDowngrades
  /\ normIn[1].decision.regenerateSpecs = Some(<<SpecHeader, SpecHero>>)
  /\ normOut[1].action = "UPDATE_COMPONENTS"
  /\ normOut[1].newComponents = Some(<<SpecHeader, SpecHero>>)

\* ------------------------------------------------------------------------
\* Properties of handlePrompt calls (checked under Spec)
\* ------------------------------------------------------------------------
\* call c has returned after carrying out a decision the guard downgraded
Downgraded(c) ==
  /\ calls[c].pc = "done"
  /\ IsDef(calls[c].validated)
  /\ calls[c].validated[1].action = "REGENERATE_SCREEN"
  /\ calls[c].decision[1].action = "UPDATE_COMPONENTS"

\* the names of the specs a downgraded decision adds
NewNames(c) ==
  LET specs == OrElse(calls[c].decision[1].newComponents, <<>>)
  IN [i \in 1..Len(specs) |-> NameRef(specs[i].name)]

\* C2: the order a downgraded decision carries is the session's composition
\* order at the time of the call, as unit names, followed by the names of
\* the new units.
C2_OrderKeepsComposition ==
  \A c \in Slots :
    Downgraded(c) =>
      calls[c].decision[1].screenOrder = Some(calls[c].screenOrder \o NewNames(c))

\* the identifiers of a components Map, in insertion order
IdsOf(components) == [k \in 1..Len(components) |-> components[k].id]

\* the session call c works on, as it was before the call (the call may
\* have created it)
Before(c) ==
  IF calls[c].actualSessionId \in DOMAIN calls[c].before
  THEN calls[c].before[calls[c].actualSessionId]
  ELSE EmptySession

\* the session call c works on, as it is now
Now(c) == store[calls[c].actualSessionId]

\* the identifiers of a composition, none when there is no composition
CompositionIds(session) ==
  IF IsDef(session.screen) THEN session.screen[1].componentIds ELSE <<>>

\* C3: after a call that carried out a downgraded decision, every unit that
\* existed before the call is in the unit mapping with the body it had, and
\* the composition is the prior composition's identifiers in their order
\* followed by identifiers of units the call created.
C3_WorkPreserved ==
  \A c \in Slots :
    Downgraded(c) =>
      LET prior == CompositionIds(Before(c))
          now == CompositionIds(Now(c))
      IN /\ \A u \in Range(Before(c).components) :
              \E v \in Range(Now(c).components) : v.id = u.id /\ v.html = u.html
         /\ Len(now) >= Len(prior)
         /\ SubSeq(now, 1, Len(prior)) = prior
         /\ \A k \in (Len(prior) + 1)..Len(now) :
              now[k] \notin Range(IdsOf(Before(c).components))

\* call c has returned because no decision could be made
DecisionFailed(c) ==
  /\ calls[c].pc = "done"
  /\ ~IsDef(calls[c].validated)

\* C4: a call that fails because no decision could be made returns
\* success=false with an error and leaves the store as it was before the
\* call: the same sessions, each with the same messages, units, composition
\* and audit log.
C4_FailureLeavesStore ==
  \A c \in Slots :
    DecisionFailed(c) =>
      /\ ~calls[c].result[1].success
      /\ IsDef(calls[c].result[1].error)
      /\ store = calls[c].before

\* call c has returned after carrying out a batch for a decision with that
\* action
Executed(c, action) ==
  /\ calls[c].pc = "done"
  /\ IsDef(calls[c].decision)
  /\ calls[c].decision[1].action = action
  /\ calls[c].ops # <<>>

\* the ops of call c whose generation succeeded, by index
Fulfilled(c) == {i \in 1..Len(calls[c].ops) : calls[c].ops[i].status = "fulfilled"}

\* the identifiers of the units the batch of call c generated, in the order
\* of the specs
FulfilledIds(c) ==
  LET all == [i \in 1..Len(calls[c].ops) |-> NewComponentId(calls[c].callNo, i)]
  IN FilterSeq(all, {all[i] : i \in Fulfilled(c)})

\* C5: after a successful full regeneration the unit mapping holds exactly
\* the units this batch generated, no unit that existed before is left, and
\* the composition references exactly those units under the requested
\* layout, or the linear stack when none was requested.
C5_RegenerationReplaces ==
  \A c \in Slots :
    (Executed(c, "REGENERATE_SCREEN") /\ calls[c].result[1].success) =>
      LET d == calls[c].decision[1]
      IN /\ Range(Now(c).components) = {calls[c].ops[i].data[1] : i \in Fulfilled(c)}
         /\ Range(IdsOf(Now(c).components)) = Range(FulfilledIds(c))
         /\ \A u \in Range(Before(c).components) :
              u.id \notin Range(IdsOf(Now(c).components))
         /\ IsDef(Now(c).screen)
         /\ Range(Now(c).screen[1].componentIds) = Range(FulfilledIds(c))
         /\ Now(c).screen[1].layout =
              (IF IsDef(d.layout) THEN d.layout[1].type ELSE "stack")

\* C5: a successful regeneration of a session that had units, with a
\* requested layout
C5_Witness ==
  \E c \in Slots :
    /\ Executed(c, "REGENERATE_SCREEN")
    /\ calls[c].result[1].success
    /\ Len(Before(c).components) > 0
    /\ Now(c).screen[1].layout = "holy-grail"

\* C6: a full-regeneration batch whose generation calls all fail makes the
\* call return success=false with an error; the session has no composition,
\* its audit log is the one from before the call, and its message log is
\* the one from before the call plus the user's prompt.
C6_AllFailEscalates ==
  \A c \in Slots :
    (Executed(c, "REGENERATE_SCREEN") /\ Fulfilled(c) = {}) =>
      /\ ~calls[c].result[1].success
      /\ IsDef(calls[c].result[1].error)
      /\ ~IsDef(Now(c).screen)
      /\ Now(c).decisionHistory = Before(c).decisionHistory
      /\ Now(c).messages =
           Append(Before(c).messages,
                  [role |-> "user", content |-> <<NameRef(calls[c].prompt)>>])

\* C6: a batch of three specs that all failed, on a session with an audit
\* log
C6_Witness ==
  \E c \in Slots :
    /\ Executed(c, "REGENERATE_SCREEN")
    /\ Len(calls[c].ops) = 3
    /\ Fulfilled(c) = {}
    /\ Len(Before(c).decisionHistory) > 0

\* C7: a full-regeneration batch in which at least one generation call
\* succeeds reports success, and its composition is the identifiers of the
\* succeeding units in the order of the specs, whatever the order in which
\* the generation calls completed.
C7_PartialFailure ==
  \A c \in Slots :
    (Executed(c, "REGENERATE_SCREEN") /\ Fulfilled(c) # {}) =>
      /\ calls[c].result[1].success
      /\ CompositionIds(Now(c)) = FulfilledIds(c)

\* C7: three specs, the second failed, and the third completed before the
\* first
C7_Witness ==
  \E c \in Slots :
    /\ Executed(c, "REGENERATE_SCREEN")
    /\ Fulfilled(c) = {1, 3}
    /\ IdsOf(Now(c).components) =
         <<NewComponentId(calls[c].callNo, 3), NewComponentId(calls[c].callNo, 1)>>

\* call c has returned and its batch made a composeScreen call
Composed(c) == calls[c].pc = "done" /\ IsDef(calls[c].composed)

\* the composeScreen call of call c named an identifier that is not in the
\* session's unit mapping
NamesUnknownUnit(c) ==
  \E i \in 1..Len(calls[c].composed[1].componentIds) :
    calls[c].composed[1].componentIds[i] \notin Range(IdsOf(Now(c).components))

\* C8: a composeScreen call whose identifier list names an identifier that
\* is not in the session's unit mapping fails and leaves the composition it
\* found (order, layout tag, role bindings) as it was; any other call
\* succeeds and makes the composition exactly its arguments.
C8_ComposerAtomicity ==
  \A c \in Slots :
    Composed(c) =>
      LET k == calls[c].composed[1]
      IN IF NamesUnknownUnit(c)
         THEN ~k.success /\ Now(c).screen = k.prior
         ELSE /\ k.success
              /\ Now(c).screen = Some([ componentIds |-> k.componentIds,
                                        layout |-> k.layout,
                                        layoutConfig |-> k.layoutConfig ])

\* C8: a call naming an unknown identifier among known ones, made on a
\* session that has a composition
C8_Witness ==
  \E c \in Slots :
    /\ Composed(c)
    /\ NamesUnknownUnit(c)
    /\ Len(calls[c].composed[1].componentIds) > 1
    /\ IsDef(calls[c].composed[1].prior)
    /\ Now(c).screen = calls[c].composed[1].prior

\* the role bindings of a layoutConfig
Roles == {"sidebarComponentId", "headerComponentId", "footerComponentId"}

\* C9: in every state, in every session, every identifier of the
\* composition's order and every role binding that is set is the
\* identifier of a unit in that session's unit mapping.
C9_ReferencesExist ==
  \A sid \in DOMAIN store :
    IsDef(store[sid].screen) =>
      LET screen == store[sid].screen[1]
          known == Range(IdsOf(store[sid].components))
      IN /\ Range(screen.componentIds) \subseteq known
         /\ IsDef(screen.layoutConfig) =>
              \A role \in Roles :
                IsDef(screen.layoutConfig[1][role]) =>
                  screen.layoutConfig[1][role][1] \in known

\* C9: a session that was composed, reset and composed again, with a header
\* binding; its message log starts after the reset
C9_Witness ==
  \E sid \in DOMAIN store :
    /\ Quiescent
    /\ IsDef(store[sid].screen)
    /\ IsDef(store[sid].screen[1].layoutConfig)
    /\ store[sid].screen[1].layoutConfig[1].headerComponentId =
         Some(NewComponentId(2, 1))
    /\ Len(store[sid].messages) = 2

\* the prompt or the rationale holds a branch phrase
BranchPhrase(userPrompt, rationale) ==
  \E kw \in branchKeywords :
    includes(toLowerCase(userPrompt), kw) \/ includes(toLowerCase(rationale), kw)

\* C10, as stated: with existing units, a full-regeneration decision whose
\* rationale holds an explicit-intent phrase is returned as it was handed
\* in, a full regeneration with every field unchanged.
C10_AsStated ==
  GuardAccepts => normOut[1] = normIn[1].decision

\* C10, amended: with existing units, a full-regeneration decision whose
\* rationale holds an explicit-intent phrase is returned as a full
\* regeneration that differs from the decision handed in only by the two
\* earlier rules: specs carried in the new-units field when there are no
\* regeneration specs are moved there, and the branch flag is true when the
\* prompt or the rationale holds a branch phrase.
C10_Passthrough ==
  GuardAccepts =>
    LET d == normIn[1].decision
        o == normOut[1]
    IN /\ o.action = "REGENERATE_SCREEN"
       /\ o.rationale = d.rationale
       /\ o.updates = d.updates
       /\ o.screenOrder = d.screenOrder
       /\ o.layout = d.layout
       /\ o.regenerateSpecs =
            (IF SpecsMisplaced(d) THEN d.newComponents ELSE d.regenerateSpecs)
       /\ o.newComponents =
            (IF SpecsMisplaced(d) THEN Some(<<>>) ELSE d.newComponents)
       /\ o.createBranch =
            (IF BranchPhrase(normIn[1].userPrompt, d.rationale)
             THEN Some(TRUE) ELSE d.createBranch)

\* C10: "Start From Scratch" with two regeneration specs, returned as handed
\* in
C10_Witness ==
  /\ GuardAccepts
  /\ normIn[1].decision.rationale = RationaleExplicit
  /\ normIn[1].decision.regenerateSpecs = Some(<<SpecHeader, SpecHero>>)
  /\ normOut[1] = normIn[1].decision

\* C11: when the session has existing units and a branch phrase occurs, in
\* any case, in the prompt or in the decision's rationale while the branch
\* flag of the decision is not true, the normalized decision has the branch
\* flag true, whatever the action and whatever the guard does.
C11_BranchDetection ==
  ( /\ Normalized
    /\ normIn[1].hasExistingComponents
    /\ BranchPhrase(normIn[1].userPrompt, normIn[1].decision.rationale)
    /\ normIn[1].decision.createBranch # Some(TRUE) )
  => normOut[1].createBranch = Some(TRUE)

\* C11: "Create a Duplicate with dark mode" with a decision that has no
\* branch flag and no branch phrase in its rationale
C11_Witness ==
  /\ Normalized
  /\ normIn[1].hasExistingComponents
  /\ normIn[1].userPrompt = PromptBranch
  /\ normIn[1].decision.rationale = RationalePlain
  /\ normIn[1].decision.createBranch = Undefined
  /\ normOut[1].createBranch = Some(TRUE)

\* the call of a record has a validated decision: it is accepted
Accepted(call) == IsDef(call.validated)

\* the call of a record has returned without a decision: it is rejected
Rejected(call) == call.pc = "done" /\ ~IsDef(call.validated)

\* one step of the decision protocol of a call, from record `old` to `new`
RetryProtocolStep(old, new) ==
  \* the first output fails validation: one retry, made of the first
  \* request's messages, the invalid output and the correction instruction
  /\ (old.pc = "deciding" /\ new.pc = "retrying") =>
       /\ Len(old.sent) = 1
       /\ \E content \in InvalidOutputs :
            new.sent = Append(old.sent,
                         old.sent[1]
                         \o << [role |-> "assistant", text |-> content,
                                context |-> Undefined],
                               [role |-> "user", text |-> "JSON_CORRECTION_PROMPT",
                                context |-> Undefined] >>)
  \* a valid first output is accepted, normalized, with no retry
  /\ (old.pc = "deciding" /\ Accepted(new)) =>
       /\ new.sent = old.sent
       /\ Len(new.sent) = 1
       /\ new.decision = Some(normalizeDecision(new.validated[1],
                                                old.hasExistingComponents, old.prompt))
  \* after the retry the call is accepted, normalized, or rejected; no
  \* further request is issued
  /\ (old.pc = "retrying" /\ new # old) =>
       /\ new.sent = old.sent
       /\ \/ /\ Accepted(new)
             /\ new.decision = Some(normalizeDecision(new.validated[1],
                                                      old.hasExistingComponents,
                                                      old.prompt))
          \/ /\ Rejected(new)
             /\ ~new.result[1].success
             /\ IsDef(new.result[1].error)
  \* never more than two requests
  /\ Len(new.sent) <= 2
  /\ new.requests = Len(new.sent)

\* C12: when the first reasoning output fails validation exactly one retry
\* is issued, resending the first request's context with the invalid output
\* and the correction instruction; a valid retry output is normalized and
\* accepted and an invalid one makes the call fail; a valid first output is
\* accepted without a retry; no call issues more than two requests.
C12_RetryProtocol ==
  [][\A c \in Slots : RetryProtocolStep(calls[c], calls'[c])]_vars

\* C12: a call accepted on its retry, and carried out
C12_Witness ==
  \E c \in Slots :
    /\ calls[c].pc = "done"
    /\ Accepted(calls[c])
    /\ Len(calls[c].sent) = 2
    /\ calls[c].sent[2][3].text \in InvalidOutputs
    /\ calls[c].result[1].success

\* the ops of call c whose generation call has not settled
Pending(c) == {i \in 1..Len(calls[c].ops) : calls[c].ops[i].status = "pending"}

\* the ops of call c whose generation call failed
Failed(c) == {i \in 1..Len(calls[c].ops) : calls[c].ops[i].status = "rejected"}

\* the state of a batch of call c while it runs and when it has returned
JoinState(c) ==
  /\ calls[c].pc = "executing" =>
       /\ Pending(c) # {}
       /\ ~IsDef(calls[c].composed)
       /\ Now(c).screen =
            (IF calls[c].decision[1].action = "REGENERATE_SCREEN"
             THEN Undefined ELSE Before(c).screen)
  /\ (calls[c].pc = "done" /\ Accepted(calls[c])) => Pending(c) = {}
  /\ calls[c].pc \in {"executing", "done"} =>
       \A i \in Fulfilled(c) :
         calls[c].ops[i].kind = "create" =>
           calls[c].ops[i].data[1] \in Range(Now(c).components)

\* a step in which generation call i of call c fails
JoinStep(c, i) ==
  ( /\ calls[c].pc = "executing"
    /\ i \in Pending(c)
    /\ calls'[c].ops[i].status = "rejected" )
  => /\ \A j \in 1..Len(calls[c].ops) : j # i => calls'[c].ops[j] = calls[c].ops[j]
     /\ Pending(c) # {i} =>
          /\ calls'[c].pc = "executing"
          /\ store' = store

\* C13: in a regeneration or update batch the failure of a generation call
\* leaves every sibling as it is, the pending ones still pending, and the
\* batch running; every unit a creation produced is in the unit mapping;
\* the composeScreen call is made, and the call returns, only when every
\* generation call of the batch has settled, and until then the composition
\* is the one the batch started with.
C13_SettleAllJoin ==
  /\ [](\A c \in Slots : JoinState(c))
  /\ [][\A c \in Slots, i \in OpIndexes : JoinStep(c, i)]_vars

\* C13: a batch in which one generation has failed, a sibling has been
\* stored and another sibling is still pending
C13_Witness ==
  \E c \in Slots :
    /\ calls[c].pc = "executing"
    /\ Failed(c) # {}
    /\ Fulfilled(c) # {}
    /\ Pending(c) # {}

\* a step in which generation call i of call c fails leaves the unit
\* mapping of the session as it is
FailureStep(c, i) ==
  ( /\ calls[c].pc = "executing"
    /\ i \in Pending(c)
    /\ calls'[c].ops[i].status = "rejected" )
  => store'[calls[c].actualSessionId].components =
       store[calls[c].actualSessionId].components

\* the unit mapping after a batch with failures: no unit for a failed
\* creation, and the target of a failed update as the update found it,
\* unless another update of the batch succeeded on it
FailureState(c) ==
  calls[c].pc = "done" =>
    \A i \in Failed(c) :
      /\ calls[c].ops[i].kind = "create" =>
           NewComponentId(calls[c].callNo, i) \notin Range(IdsOf(Now(c).components))
      /\ ( /\ calls[c].ops[i].kind = "update"
           /\ IsDef(calls[c].ops[i].existing)
           /\ \A j \in Fulfilled(c) :
                calls[c].ops[j].kind = "update" =>
                  calls[c].ops[j].existing[1].id # calls[c].ops[i].existing[1].id )
         => calls[c].ops[i].existing[1] \in Range(Now(c).components)

\* C14: a failed generation neither creates nor changes a unit: the step in
\* which a generation call fails leaves the unit mapping as it is, a failed
\* creation has no entry in it, and the target of a failed update keeps its
\* body, description and timestamp.
C14_FailureWritesNothing ==
  /\ [](\A c \in Slots : FailureState(c))
  /\ [][\A c \in Slots, i \in OpIndexes : FailureStep(c, i)]_vars

\* C14: a batch with a failed update of a unit that is still as it was
C14_Witness ==
  \E c \in Slots :
    /\ calls[c].pc = "done"
    /\ \E i \in Failed(c) :
         /\ calls[c].ops[i].kind = "update"
         /\ IsDef(calls[c].ops[i].existing)
         /\ calls[c].ops[i].existing[1] \in Range(Now(c).components)

\* the update ops of call c that found their unit
Updates(c) ==
  {i \in 1..Len(calls[c].ops) :
     calls[c].ops[i].kind = "update" /\ IsDef(calls[c].ops[i].existing)}

\* the fulfilled updates of call c on the unit with that identifier
UpdatesOn(c, id) ==
  {i \in Updates(c) \cap Fulfilled(c) : calls[c].ops[i].existing[1].id = id}

\* C15: every update of a batch takes as input the unit as it was before
\* the batch began; when the batch has returned, a unit that updates of the
\* batch succeeded on is the result of the one that completed last, and
\* that result is generated from the body the unit had before the batch,
\* with that update's change request alone.
C15_UpdatesReadPreBatch ==
  \A c \in Slots :
    /\ \A i \in Updates(c) :
         calls[c].ops[i].existing[1] \in Range(Before(c).components)
    /\ calls[c].pc = "done" =>
         \A u \in Range(Now(c).components) :
           UpdatesOn(c, u.id) # {} =>
             \E i \in UpdatesOn(c, u.id) :
               /\ \A j \in UpdatesOn(c, u.id) :
                    calls[c].ops[j].data[1].html.gen <= calls[c].ops[i].data[1].html.gen
               /\ u.html.gen = calls[c].ops[i].data[1].html.gen
               /\ u.html.change = calls[c].ops[i].change
               /\ \E b \in Range(Before(c).components) :
                    b.id = u.id /\ u.html.from = b.html.gen

\* C15: two updates of one batch succeeded on the same unit, the first of
\* the batch completing last
C15_Witness ==
  \E c \in Slots :
    /\ calls[c].pc = "done"
    /\ \E u \in Range(Now(c).components) :
         /\ UpdatesOn(c, u.id) = {1, 2}
         /\ calls[c].ops[1].data[1].html.gen > calls[c].ops[2].data[1].html.gen
         /\ u.html.change = "make it blue"

\* ------------------------------------------------------------------------
\* Properties of resolveComponentId (checked under SpecResolve)
\* ------------------------------------------------------------------------
\* the positions of the units whose name contains the text, any case
MatchPositions(components, text) ==
  {i \in 1..Len(components) :
     includes(toLowerCase(components[i].name), toLowerCase(text))}

\* the identifier of the first of them in insertion order, or none
FirstMatch(components, text) ==
  IF MatchPositions(components, text) = {} THEN Undefined
  ELSE Some(components[CHOOSE i \in MatchPositions(components, text) :
                         \A j \in MatchPositions(components, text) : i <= j].id)

\* C16: a reference that is free text resolves to the identifier of the first
\* unit, in insertion order, whose name contains it case-insensitively, and
\* to nothing when no name does; resolving the same reference again, with the
\* unit mapping as it was, gives the same answer.
C16_FirstMatchByName ==
  \A k \in 1..Len(resolved.log) :
    resolved.log[k].reference.shape = "text" =>
      /\ resolved.log[k].result =
           FirstMatch(store[1].components, resolved.log[k].reference.text)
      /\ \A l \in 1..Len(resolved.log) :
           resolved.log[l].reference = resolved.log[k].reference
             => resolved.log[l].result = resolved.log[k].result

\* C16: units "Header" then "Header Section"; "header" in two cases resolves
\* to the first of them
C16_Witness ==
  /\ Len(store[1].components) >= 2
  /\ store[1].components[1].name = <<"Header">>
  /\ store[1].components[2].name = <<"Header", "Section">>
  /\ Len(resolved.log) = 2
  /\ resolved.log[1].reference = NameRef(<<"HEADER">>)
  /\ resolved.log[2].reference = NameRef(<<"header">>)
  /\ resolved.log[1].result = Some(store[1].components[1].id)
  /\ resolved.log[2].result = Some(store[1].components[1].id)

\* C17: a reference with the shape of an identifier resolves to itself,
\* whether or not the session has a unit with that identifier; that the unit
\* exists is checked when the screen is composed from the resolved
\* identifiers: the composition is rejected if and only if one of them is
\* not a unit of the session.
C17_IdentifierVerbatim ==
  /\ \A k \in 1..Len(resolved.log) :
       resolved.log[k].reference.shape = "uuid" =>
         resolved.log[k].result = Some(resolved.log[k].reference.id)
  /\ resolved.composed = "accepted" =>
       /\ IsDef(store[1].screen)
       /\ \A id \in Range(resolvedIds(resolved.log)) :
            hasComponent(store[1].components, id)
  /\ resolved.composed = "rejected" =>
       /\ ~IsDef(store[1].screen)
       /\ \E id \in Range(resolvedIds(resolved.log)) :
            ~hasComponent(store[1].components, id)

\* C17: an identifier no unit has was resolved to itself, and the
\* composition from it was rejected
C17_Witness ==
  /\ \E k \in 1..Len(resolved.log) :
       /\ resolved.log[k].reference = GhostRef
       /\ resolved.log[k].result = Some(GhostRef.id)
       /\ ~hasComponent(store[1].components, GhostRef.id)
  /\ resolved.composed = "rejected"

\* ------------------------------------------------------------------------
\* Properties of the audit log (checked under Spec)
\* ------------------------------------------------------------------------
\* call c returns in this step
Returns(c) == calls[c].pc # "done" /\ calls'[c].pc = "done"

\* call c returns in this step with success, having worked on session s
Succeeds(c, s) ==
  /\ Returns(c)
  /\ calls'[c].result[1].success
  /\ calls'[c].actualSessionId = s

\* the log `new` is the log `old` with one entry more at its end
AppendsOne(old, new) ==
  /\ Len(new) = Len(old) + 1
  /\ SubSeq(new, 1, Len(old)) = old

\* what a step does to the audit log of session s
AuditStep(s) ==
  LET old == store[s].decisionHistory
      new == store'[s].decisionHistory
  IN \/ /\ \E c \in Slots : Succeeds(c, s)
        /\ AppendsOne(old, new)
        /\ \E c \in Slots : Succeeds(c, s) /\ new[Len(new)].id = calls'[c].callNo
     \/ /\ \A c \in Slots : ~Succeeds(c, s)
        /\ new = old
     \/ /\ \A c \in Slots : ~Returns(c)
        /\ old # <<>>
        /\ new = <<>>
        /\ store' = resetSession(store, s)

\* C18: the audit log is append-only.  In every step the log of every
\* session stays as it is, except that a handlePrompt call that returns with
\* success appends exactly one entry at its end (a call that fails appends
\* none) and that a reset of the session empties it; a session starts with
\* an empty log.
C18_AuditAppendOnly ==
  [][ /\ \A s \in DOMAIN store : s \in DOMAIN store' /\ AuditStep(s)
      /\ \A s \in DOMAIN store' \ DOMAIN store : store'[s].decisionHistory = <<>>
    ]_vars

\* C18: a log of two entries, the second appended by a full regeneration
\* after the first
C18_Witness ==
  \E s \in DOMAIN store :
    /\ Len(store[s].decisionHistory) = 2
    /\ store[s].decisionHistory[1].id = 1
    /\ store[s].decisionHistory[2].id = 2
    /\ store[s].decisionHistory[2].decision.action = "REGENERATE_SCREEN"

\* the reference names a unit of the mapping: by its identifier, or as the
\* resolver would find it by name
RefersToUnit(components, reference) ==
  IF reference.shape = "uuid" THEN hasComponent(components, reference.id)
  ELSE IsDef(FirstMatch(components, reference.text))

\* C19: when a call has appended its audit entry, every reference of the
\* entry's affected-units list names a unit of the session's unit mapping.
C19_AffectedUnitsExist ==
  \A c \in Slots :
    (calls[c].pc = "done" /\ calls[c].result[1].success) =>
      LET log == Now(c).decisionHistory
      IN /\ log # <<>>
         /\ log[Len(log)].id = calls[c].callNo
         /\ \A k \in 1..Len(log[Len(log)].componentsAffected) :
              RefersToUnit(Now(c).components, log[Len(log)].componentsAffected[k])

\* ------------------------------------------------------------------------
\* Properties of the reset route (checked under SpecReset)
\* ------------------------------------------------------------------------
\* the latest request to the reset route, with its response
LastReset(log) == log[Len(log)]

\* this step is a reset of a session that the request before it has reset
\* with success
SecondReset ==
  /\ Len(resets) >= 1
  /\ Len(resets') = Len(resets) + 1
  /\ LastReset(resets).response.success
  /\ LastReset(resets').request = LastReset(resets).request

\* C20, as stated: the second of two resets in a row of an existing session
\* reports success, leaves the state exactly as the first left it, and keeps
\* the session identifier.
C20_AsStated ==
  [][ SecondReset =>
        /\ LastReset(resets').response.success
        /\ LastReset(resets').response.session.id = LastReset(resets').request
        /\ store' = store
    ]_vars

\* C20: the second of two resets in a row of an existing session reports
\* success with the same empty session under the same identifier as the
\* first; the store keeps its sessions, the other sessions are untouched and
\* the session is as the first reset left it (no messages, units,
\* composition or audit entries) but for its last-activity time, which is
\* the time of the second reset.
C20_IdempotentReset ==
  [][ SecondReset =>
        /\ LastReset(resets').response.status = 200
        /\ LastReset(resets').response.success
        /\ LastReset(resets').response.session = LastReset(resets).response.session
        /\ LastReset(resets').response.session.id = LastReset(resets').request
        /\ DOMAIN store' = DOMAIN store
        /\ \A s \in DOMAIN store :
             store'[s] = IF Some(s) = LastReset(resets').request
                         THEN [store[s] EXCEPT !.lastActivityAt = LastReset(resets').at]
                         ELSE store[s]
        /\ \A s \in DOMAIN store :
             Some(s) = LastReset(resets').request =>
               store'[s] = [EmptySession EXCEPT !.lastActivityAt = LastReset(resets').at]
    ]_vars

\* C20: two resets in a row of the same existing session, the second later
\* than the first, both answered with success
C20_Witness ==
  /\ Len(resets) = 2
  /\ resets[1].request = resets[2].request
  /\ resets[1].response.success
  /\ resets[2].response.success
  /\ resets[2].at > resets[1].at
  /\ store[resets[2].request[1]].lastActivityAt = resets[2].at

\* ------------------------------------------------------------------------
\* Properties of sessions (checked under Spec)
\* ------------------------------------------------------------------------
\* the session has nothing in it
Cleared(session) ==
  /\ session.messages = <<>>
  /\ session.components = <<>>
  /\ session.decisionHistory = <<>>
  /\ ~IsDef(session.screen)

\* call c starts in this step
Starts(c) == calls[c].pc = "idle" /\ calls'[c].pc # "idle"

\* C21: a reset of an existing session, after whatever went before, leaves
\* its message log, unit mapping and audit log empty and its composition
\* absent, with the session still in the store under its identifier; and a
\* handlePrompt call that names a session of the store works on that
\* session, creating none.
C21_ResetFullClear ==
  [][ /\ \A s \in DOMAIN store :
           (Quiescent /\ calls' = calls /\ store' # store
              /\ store'[s] # store[s]) =>
             /\ DOMAIN store' = DOMAIN store
             /\ Cleared(store'[s])
      /\ \A c \in Slots :
           (Starts(c) /\ IsDef(calls'[c].sessionId)
              /\ calls'[c].sessionId[1] \in DOMAIN store) =>
             /\ calls'[c].actualSessionId = calls'[c].sessionId[1]
             /\ DOMAIN store' = DOMAIN store
    ]_vars

\* C21: the second call works on the session the first call created, and
\* found it with nothing in it: it was reset in between
C21_Witness ==
  \E c \in Slots :
    /\ calls[c].callNo = 2
    /\ calls[c].sessionId = Some(1)
    /\ calls[c].actualSessionId = 1
    /\ Cleared(calls[c].before[1])
    /\ DOMAIN store = {1}

\* ------------------------------------------------------------------------
\* Properties of executeUpdate (checked under Spec)
\* ------------------------------------------------------------------------
\* call c carries out an incremental update
Updating(c) ==
  /\ calls[c].pc \in {"executing", "done"}
  /\ IsDef(calls[c].decision)
  /\ calls[c].decision[1].action = "UPDATE_COMPONENTS"

\* the unit a reference stands for in a unit mapping: the identifier
\* itself, or the first unit whose name contains the text
Target(components, reference) ==
  IF reference.shape = "uuid" THEN Some(reference.id)
  ELSE FirstMatch(components, reference.text)

\* the updates of the decision of call c whose target resolves, in order
ResolvableUpdates(c) ==
  FilterSeq(OrElse(calls[c].decision[1].updates, <<>>),
            {u \in Range(OrElse(calls[c].decision[1].updates, <<>>)) :
               IsDef(Target(Before(c).components, u.componentId))})

\* C22: an update whose target does not resolve is skipped and the call
\* goes on: the batch has one generation for every update that resolves, on
\* the unit it resolves to and with its change request, followed by one for
\* every new unit of the decision, and the call returns success.
C22_UnresolvedSkipped ==
  \A c \in Slots :
    Updating(c) =>
      LET resolvable == ResolvableUpdates(c)
          added == OrElse(calls[c].decision[1].newComponents, <<>>)
          ops == calls[c].ops
      IN /\ Len(ops) = Len(resolvable) + Len(added)
         /\ \A k \in 1..Len(resolvable) :
              /\ ops[k].kind = "update"
              /\ ops[k].change = resolvable[k].changeDescription
              /\ ops[k].existing =
                   getComponent(calls[c].before, calls[c].actualSessionId,
                                Target(Before(c).components, resolvable[k].componentId)[1])
         /\ \A k \in 1..Len(added) :
              /\ ops[Len(resolvable) + k].kind = "create"
              /\ ops[Len(resolvable) + k].name = added[k].name
         /\ calls[c].pc = "done" =>
              /\ calls[c].result[1].success
              /\ Pending(c) = {}

\* C22: a decision with an update that did not resolve; the other update
\* and the creation were carried out and the call returned success
C22_Witness ==
  \E c \in Slots :
    /\ Updating(c)
    /\ calls[c].pc = "done"
    /\ Len(ResolvableUpdates(c)) < Len(OrElse(calls[c].decision[1].updates, <<>>))
    /\ Fulfilled(c) = {1, 2}
    /\ calls[c].ops[1].kind = "update"
    /\ calls[c].ops[2].kind = "create"
    /\ calls[c].result[1].success

\* the units the batch of call c created, in the order of their specs
Created(c) == dataOf(calls[c].ops, "create")

\* the positions of the units of a list whose name is the text, any case
NamedPositions(units, text) ==
  {k \in 1..Len(units) : toLowerCase(units[k].name) = toLowerCase(text)}

RECURSIVE ResolvedOrder(_, _, _)
\* the identifiers the entries of an order stand for: a unit created in the
\* batch with that name, else the unit the reference resolves to in the
\* unit mapping; an entry that stands for nothing is left out
ResolvedOrder(entries, created, components) ==
  IF entries = <<>> THEN <<>>
  ELSE (IF Head(entries).shape = "text"
           /\ NamedPositions(created, Head(entries).text) # {}
        THEN Some(created[CHOOSE k \in NamedPositions(created, Head(entries).text) :
                            \A j \in NamedPositions(created, Head(entries).text) : k <= j].id)
        ELSE Target(components, Head(entries)))
       \o ResolvedOrder(Tail(entries), created, components)

\* call c has carried out an incremental update whose decision gives an order
OrderGiven(c) ==
  /\ Updating(c)
  /\ calls[c].pc = "done"
  /\ Len(OrElse(calls[c].decision[1].screenOrder, <<>>)) > 0

\* the order of the decision of call c, resolved
OrderOf(c) ==
  ResolvedOrder(calls[c].decision[1].screenOrder[1], Created(c), Now(c).components)

\* C23, as stated: after an incremental update with an explicit order the
\* composition is exactly the resolved identifiers in the order given.
C23_AsStated ==
  \A c \in Slots : OrderGiven(c) => CompositionIds(Now(c)) = OrderOf(c)

\* C23: after an incremental update with an explicit order, each entry
\* standing for a unit created in the batch with that name or else for what
\* the reference resolver finds, entries that stand for nothing left out:
\* when no entry resolves, no composition call is made and the composition
\* is as before; otherwise one call is made with exactly the resolved
\* identifiers in the order given, and the composition becomes that list
\* when every identifier is a unit of the session and stays as it was when
\* one is not.
C23_ExplicitOrder ==
  \A c \in Slots :
    OrderGiven(c) =>
      IF OrderOf(c) = <<>>
      THEN /\ ~IsDef(calls[c].composed)
           /\ Now(c).screen = Before(c).screen
      ELSE /\ IsDef(calls[c].composed)
           /\ calls[c].composed[1].componentIds = OrderOf(c)
           /\ IF \A id \in Range(OrderOf(c)) : hasComponent(Now(c).components, id)
              THEN /\ calls[c].composed[1].success
                   /\ CompositionIds(Now(c)) = OrderOf(c)
              ELSE /\ ~calls[c].composed[1].success
                   /\ Now(c).screen = Before(c).screen

\* C23: an order of four entries: the first stands for the unit created in
\* the batch, one stands for nothing, and the composition is the other three
C23_Witness ==
  \E c \in Slots :
    /\ OrderGiven(c)
    /\ Len(calls[c].decision[1].screenOrder[1]) = 4
    /\ Len(Created(c)) = 1
    /\ Len(OrderOf(c)) = 3
    /\ OrderOf(c)[1] = Created(c)[1].id
    /\ CompositionIds(Now(c)) = OrderOf(c)

\* call c has carried out an incremental update whose decision gives no order
NoOrderGiven(c) ==
  /\ Updating(c)
  /\ calls[c].pc = "done"
  /\ Len(OrElse(calls[c].decision[1].screenOrder, <<>>)) = 0

\* the identifiers of the units the batch of call c created, in the order
\* of their specifications
CreatedIds(c) ==
  LET all == [i \in 1..Len(calls[c].ops) |-> NewComponentId(calls[c].callNo, i)]
  IN FilterSeq(all, {all[i] : i \in {j \in Fulfilled(c) : calls[c].ops[j].kind = "create"}})

\* C24: after an incremental update without an explicit order in which at
\* least one new unit was created, the composition is the order that was
\* there before followed by the identifiers of the units created, in the
\* order of their specifications.
C24_NewUnitsAppended ==
  \A c \in Slots :
    (NoOrderGiven(c) /\ Len(CreatedIds(c)) > 0) =>
      /\ CompositionIds(Now(c)) = CompositionIds(Before(c)) \o CreatedIds(c)
      /\ \A k \in 1..Len(CreatedIds(c)) :
           hasComponent(Now(c).components, CreatedIds(c)[k])

\* C24: two units created and appended, in the order of their
\* specifications, to a composition of two units
C24_Witness ==
  \E c \in Slots :
    /\ NoOrderGiven(c)
    /\ Len(CompositionIds(Before(c))) = 2
    /\ Len(CreatedIds(c)) = 2
    /\ getComponent(store, calls[c].actualSessionId, CreatedIds(c)[1])[1].name = <<"Hero">>
    /\ CompositionIds(Now(c)) = CompositionIds(Before(c)) \o CreatedIds(c)

\* the decision carries nothing to do
EmptyDecision(d) ==
  /\ d.action = "UPDATE_COMPONENTS"
  /\ Len(OrElse(d.updates, <<>>)) = 0
  /\ Len(OrElse(d.newComponents, <<>>)) = 0
  /\ Len(OrElse(d.screenOrder, <<>>)) = 0
  /\ ~IsDef(d.layout)

\* C25: a call whose decision is an empty incremental update returns
\* success, starts no generation, makes no composition call, and leaves the
\* unit mapping and the composition as they were.
C25_EmptyDecisionNoOp ==
  \A c \in Slots :
    (calls[c].pc = "done" /\ IsDef(calls[c].decision)
       /\ EmptyDecision(calls[c].decision[1])) =>
      /\ calls[c].result[1].success
      /\ calls[c].ops = <<>>
      /\ ~IsDef(calls[c].composed)
      /\ Now(c).components = Before(c).components
      /\ Now(c).screen = Before(c).screen

\* C25: an empty decision carried out on a session with units and a
\* composition
C25_Witness ==
  \E c \in Slots :
    /\ calls[c].pc = "done"
    /\ IsDef(calls[c].decision)
    /\ EmptyDecision(calls[c].decision[1])
    /\ calls[c].result[1].success
    /\ Now(c).components # <<>>
    /\ IsDef(Now(c).screen)

\* ------------------------------------------------------------------------
\* Properties of makeDecision (checked under Spec)
\* ------------------------------------------------------------------------
\* makeDecision has returned to call c: the call holds its decision
Decided(c) == calls[c].pc \in {"executing", "done"} /\ IsDef(calls[c].decision)

\* C26: every decision makeDecision returns satisfies the invariant of its
\* action: a full-regeneration decision it returns carries at least one
\* new-unit specification.
C26_DecisionInvariant ==
  \A c \in Slots :
    (Decided(c) /\ calls[c].decision[1].action = "REGENERATE_SCREEN") =>
      Len(OrElse(calls[c].decision[1].regenerateSpecs, <<>>)) >= 1

\* ------------------------------------------------------------------------
\* Properties of sessions with requests in flight together (checked under
\* SpecConc)
\* ------------------------------------------------------------------------
\* the step is a step of call c
StepOf(c) == calls'[c] # calls[c]

\* the session the step of call c works on
ActingSession(c) ==
  IF Starts(c) THEN calls'[c].actualSessionId ELSE calls[c].actualSessionId

\* session s is in the store after the step with the message log, unit
\* mapping, composition and audit log it had
Untouched(s) ==
  /\ s \in DOMAIN store'
  /\ store'[s].messages = store[s].messages
  /\ store'[s].components = store[s].components
  /\ store'[s].screen = store[s].screen
  /\ store'[s].decisionHistory = store[s].decisionHistory

\* C27: whatever is in flight, a step of a handlePrompt call leaves every
\* session but the one the call works on with its message log, unit
\* mapping, composition and audit log unchanged, and a reset leaves every
\* session but one so.
C27_SessionIsolation ==
  [][ /\ \A c \in Slots :
           StepOf(c) => \A s \in DOMAIN store \ {ActingSession(c)} : Untouched(s)
      /\ (calls' = calls /\ store' # store) =>
           \E t \in DOMAIN store :
             /\ Cleared(store'[t])
             /\ \A s \in DOMAIN store \ {t} : Untouched(s)
    ]_vars

\* C27: two calls in flight together on two sessions: the second started
\* before the first stored its unit, and each session holds the unit and
\* the audit entry of its own call only
C27_Witness ==
  \E c \in Slots, d \in Slots :
    /\ calls[c].pc = "done" /\ calls[d].pc = "done"
    /\ calls[c].actualSessionId = 1 /\ calls[d].actualSessionId = 2
    /\ calls[d].before[1].components = <<>>
    /\ Len(store[1].components) = 1 /\ Len(store[2].components) = 1
    /\ store[1].components[1].id = NewComponentId(calls[c].callNo, 1)
    /\ store[2].components[1].id = NewComponentId(calls[d].callNo, 1)
    /\ Len(store[1].decisionHistory) = 1 /\ Len(store[2].decisionHistory) = 1

\* the identifier call c was given is in the store when the call starts
KnownSession(c) ==
  IsDef(calls'[c].sessionId) /\ calls'[c].sessionId[1] \in DOMAIN store

\* C28: a handlePrompt call given no session identifier, or one that is not
\* in the store, adds exactly one session to the store, under an identifier
\* no session had, empty but for the prompt the call logs in it, and works
\* on it; a call given an identifier of the store works on that session and
\* adds none; no later step of a call adds or removes a session.
C28_SessionCreation ==
  [][ \A c \in Slots :
        /\ (Starts(c) /\ ~KnownSession(c)) =>
             /\ calls'[c].actualSessionId \notin DOMAIN store
             /\ DOMAIN store' = DOMAIN store \cup {calls'[c].actualSessionId}
             /\ store'[calls'[c].actualSessionId].messages =
                  <<[role |-> "user", content |-> <<NameRef(calls'[c].prompt)>>]>>
             /\ store'[calls'[c].actualSessionId].components = <<>>
             /\ store'[calls'[c].actualSessionId].decisionHistory = <<>>
             /\ ~IsDef(store'[calls'[c].actualSessionId].screen)
        /\ (Starts(c) /\ KnownSession(c)) =>
             /\ calls'[c].actualSessionId = calls'[c].sessionId[1]
             /\ DOMAIN store' = DOMAIN store
        /\ (StepOf(c) /\ ~Starts(c)) => DOMAIN store' = DOMAIN store
    ]_vars

\* C28: a call given an identifier that is not in the store has worked on
\* a session of its own making, the second of the store
C28_Witness ==
  \E c \in Slots :
    /\ calls[c].pc = "done"
    /\ calls[c].sessionId = Some(0)
    /\ DOMAIN calls[c].before = {1}
    /\ calls[c].actualSessionId = 2
    /\ DOMAIN store = {1, 2}
    /\ calls[c].result[1].success

\* ------------------------------------------------------------------------
\* Properties of the frames of the page (checked under SpecFrames)
\* ------------------------------------------------------------------------
\* the response of the request in flight arrives in this step
Arrives ==
  /\ IsDef(page.inFlight)
  /\ IsDef(page.inFlight[1].response)
  /\ ~IsDef(page'.inFlight)

\* the response that arrives
Data == page.inFlight[1].response[1]

\* the frame that was active when the prompt was submitted is on the canvas
ActiveOnCanvas ==
  /\ IsDef(page.inFlight[1].activeFrameId)
  /\ \E i \in 1..Len(page.frames) : page.frames[i].id = page.inFlight[1].activeFrameId[1]

\* the units of the snapshot of frame f of page p
Snapshot(p, f) == [k \in 1..Len(f.components) |-> p.heap[f.components[k]]]

\* no unit object of the page is written to in this step
ObjectsKept == \A a \in 1..Len(page.heap) : page'.heap[a] = page.heap[a]

\* C29: when a successful response with the branch flag arrives and there
\* is an active frame, every frame of the canvas stays, with its composition
\* and its unit snapshot, and exactly one frame is added, which holds the
\* composition and the units of the response and has the active frame as
\* its parent.
C29_BranchKeepsOriginal ==
  [][ (Arrives /\ Data.success /\ Data.agentDecision[1].createBranch = Some(TRUE)
         /\ ActiveOnCanvas) =>
        /\ Len(page'.frames) = Len(page.frames) + 1
        /\ \A i \in 1..Len(page.frames) : page'.frames[i] = page.frames[i]
        /\ ObjectsKept
        /\ IsDef(Data.session.screen)
        /\ page'.frames[Len(page'.frames)].screen = Data.session.screen[1]
        /\ Snapshot(page', page'.frames[Len(page'.frames)]) = Data.session.components
        /\ page'.frames[Len(page'.frames)].parentFrameId = page.inFlight[1].activeFrameId
    ]_vars

\* a successful response to an incremental update without the branch flag
\* arrives, the frame that was active at the prompt being on the canvas
UpdateArrives ==
  /\ Arrives
  /\ Data.success
  /\ Data.agentDecision[1].action = "UPDATE_COMPONENTS"
  /\ Data.agentDecision[1].createBranch # Some(TRUE)
  /\ ActiveOnCanvas

\* the active frame gets the composition and the units of the response, and
\* every other frame is as it was
ActiveFrameReplaced ==
  /\ IsDef(Data.session.screen)
  /\ Len(page'.frames) = Len(page.frames)
  /\ ObjectsKept
  /\ \A i \in 1..Len(page.frames) :
       IF page.frames[i].id = page.inFlight[1].activeFrameId[1]
       THEN /\ page'.frames[i].id = page.frames[i].id
            /\ page'.frames[i].parentFrameId = page.frames[i].parentFrameId
            /\ page'.frames[i].screen = Data.session.screen[1]
            /\ Snapshot(page', page'.frames[i]) = Data.session.components
       ELSE page'.frames[i] = page.frames[i]

\* a frame is duplicated in this step
Duplicates == page'.duplicates = page.duplicates + 1

\* the frame added is a copy of its parent with unit objects of its own
DuplicateIsCopy ==
  /\ Len(page'.frames) = Len(page.frames) + 1
  /\ \A i \in 1..Len(page.frames) : page'.frames[i] = page.frames[i]
  /\ ObjectsKept
  /\ \E i \in 1..Len(page.frames) :
       /\ page'.frames[Len(page'.frames)].parentFrameId = Some(page.frames[i].id)
       /\ page'.frames[Len(page'.frames)].screen = page.frames[i].screen
       /\ Snapshot(page', page'.frames[Len(page'.frames)]) = Snapshot(page, page.frames[i])
  /\ \A a \in Range(page'.frames[Len(page'.frames)].components) : a > Len(page.heap)

\* no two frames of page p hold the same unit object
NoSharedUnits(p) ==
  \A i \in 1..Len(p.frames), j \in 1..Len(p.frames) :
    i # j => Range(p.frames[i].components) \cap Range(p.frames[j].components) = {}

\* C30, as stated: a successful non-branching update that arrives while a
\* frame is active replaces the composition and the unit snapshot of that
\* frame and leaves every other frame as it was; a duplicate has unit copies
\* of its own, and no later step alters the units of another frame.
C30_AsStated ==
  [][ /\ UpdateArrives => ActiveFrameReplaced
      /\ Duplicates => DuplicateIsCopy
      /\ ObjectsKept
      /\ NoSharedUnits(page')
    ]_vars

\* C30: a successful non-branching update that arrives while the frame that
\* was active at the prompt is on the canvas replaces, when the response
\* carries a composition, the composition and the unit snapshot of that frame
\* and leaves every other frame as it was, and changes no frame when the
\* response carries none; a frame made by duplicating another holds copies
\* of its units in objects of its own; no step writes to a unit object and
\* no two frames ever hold the same one, so a change to one frame does not
\* alter another.
C30_FramesIndependent ==
  [][ /\ UpdateArrives =>
           IF IsDef(Data.session.screen) THEN ActiveFrameReplaced
           ELSE page'.frames = page.frames /\ ObjectsKept
      /\ Duplicates => DuplicateIsCopy
      /\ ObjectsKept
      /\ NoSharedUnits(page')
    ]_vars

\* C30: a frame and its duplicate, one of them updated after the duplicate
\* was made: the duplicate holds one unit, the frame it was made from two
C30_Witness ==
  \E i \in 1..Len(page.frames), j \in 1..Len(page.frames) :
    /\ page.duplicates = 1
    /\ page.frames[j].parentFrameId = Some(page.frames[i].id)
    /\ Len(Snapshot(page, page.frames[j])) = 1
    /\ Len(Snapshot(page, page.frames[i])) = 2
    /\ page.frames[j].screen.componentIds = <<11>>
    /\ page.frames[i].screen.componentIds = <<11, 12>>
    /\ ~IsDef(page.frames[i].parentFrameId)

\* the prompt holds no branch phrase
NoBranchPhrase(userPrompt) ==
  \A kw \in branchKeywords : ~includes(toLowerCase(userPrompt), kw)

\* the case of C31: existing units, a full regeneration, a prompt without a
\* branch phrase
GuardReached ==
  /\ Normalized
  /\ normIn[1].hasExistingComponents
  /\ normIn[1].decision.action = "REGENERATE_SCREEN"
  /\ NoBranchPhrase(normIn[1].userPrompt)

\* C31: the regeneration guard depends on the rationale only.  With existing
\* units and a full-regeneration decision, the normalization of the same
\* decision under any other prompt without a branch phrase gives the same
\* action (and the same decision); a decision whose rationale holds no
\* explicit-intent phrase is downgraded also when the prompt holds one.
C31_GuardIgnoresPrompt ==
  GuardReached =>
    /\ \A other \in NormPrompts :
         NoBranchPhrase(other) =>
           /\ normalizeDecision(normIn[1].decision, TRUE, other).action = normOut[1].action
           /\ normalizeDecision(normIn[1].decision, TRUE, other) = normOut[1]
    /\ ( /\ NoExplicitPhrase(normIn[1].decision.rationale)
         /\ ~NoExplicitPhrase(normIn[1].userPrompt) )
         => normOut[1].action = "UPDATE_COMPONENTS"

\* C31: the prompt "Start over" with the rationale "Let's Refresh the page":
\* the regeneration is downgraded
C31_Witness ==
  /\ GuardReached
  /\ normIn[1].userPrompt = PromptExplicit
  /\ normIn[1].decision.rationale = RationalePlain
  /\ normOut[1].action = "UPDATE_COMPONENTS"

\* the annotation of a downgraded decision's rationale
Protected(rationale) ==
  <<"[PROTECTED]">> \o rationale
    \o <<". Adding new components while preserving existing ones.">>

\* C32: the rules apply in order.  A downgraded decision (existing units, a
\* full regeneration, no explicit-intent phrase in the rationale) has the
\* branch flag as branch detection left it: true when the prompt or the
\* rationale holds a branch phrase, and otherwise the flag of the decision
\* handed in; its rationale is the original one annotated as protected; it
\* carries no regeneration specs.
C32_DowngradeKeepsBranchFlag ==
  GuardDowngrades =>
    /\ normOut[1].action = "UPDATE_COMPONENTS"
    /\ normOut[1].createBranch =
         (IF BranchPhrase(normIn[1].userPrompt, normIn[1].decision.rationale)
          THEN Some(TRUE) ELSE normIn[1].decision.createBranch)
    /\ normOut[1].rationale = Protected(normIn[1].decision.rationale)
    /\ OrElse(normOut[1].regenerateSpecs, <<>>) = <<>>

\* C32: a regeneration with two specs and no branch flag, asked with "Create
\* a Duplicate with dark mode": downgraded with the flag forced true
C32_Witness ==
  /\ GuardDowngrades
  /\ normIn[1].userPrompt = PromptBranch
  /\ normIn[1].decision.rationale = RationalePlain
  /\ normIn[1].decision.createBranch = Undefined
  /\ normIn[1].decision.regenerateSpecs = Some(<<SpecHeader, SpecHero>>)
  /\ normOut[1].createBranch = Some(TRUE)
  /\ normOut[1].regenerateSpecs = Undefined

\* the case of C33: normalizeDecision applied for a session without units
NoExistingUnits ==
  /\ Normalized
  /\ ~normIn[1].hasExistingComponents

\* C33: when the session has no existing units, normalization neither
\* downgrades nor forces the branch flag: the normalized decision has the
\* action of the decision handed in, whatever its rationale, and the branch
\* flag of the decision handed in, whatever phrases the prompt and the
\* rationale hold; only misplaced specs are moved.
C33_NoUnitsNoGuard ==
  NoExistingUnits =>
    /\ normOut[1].action = normIn[1].decision.action
    /\ normOut[1].createBranch = normIn[1].decision.createBranch
    /\ normOut[1].rationale = normIn[1].decision.rationale
    /\ normOut[1] = repairMisplacedSpecs(normIn[1].decision)

\* C33: a first full regeneration with a plain rationale, asked with "Create
\* a Duplicate with dark mode", stays a full regeneration without a branch
\* flag
C33_Witness ==
  /\ NoExistingUnits
  /\ normIn[1].userPrompt = PromptBranch
  /\ normIn[1].decision.action = "REGENERATE_SCREEN"
  /\ normIn[1].decision.rationale = RationalePlain
  /\ normIn[1].decision.createBranch = Undefined
  /\ normOut[1].action = "REGENERATE_SCREEN"
  /\ normOut[1].createBranch = Undefined

\* ------------------------------------------------------------------------
\* The context of a decision (checked under Spec)
\* ------------------------------------------------------------------------
\* call c has submitted its context and the reasoning service has not
\* answered yet
Submitted(c) ==
  /\ calls[c].pc \in {"deciding", "retrying"}
  /\ IsDef(calls[c].userMessage)
  /\ calls[c].actualSessionId \in DOMAIN store

\* C34: the context submitted to the reasoning service reports the
\* session's current layout tag: whenever the session of a call has a
\* composition, the state section of the call's context names the layout
\* tag of that composition.
C34_ContextLayout ==
  \A c \in Slots :
    (Submitted(c) /\ IsDef(store[calls[c].actualSessionId].screen)) =>
      /\ IsDef(calls[c].userMessage[1].state)
      /\ calls[c].userMessage[1].state[1].layout =
           store[calls[c].actualSessionId].screen[1].layout

\* ------------------------------------------------------------------------
\* Termination of handlePrompt.  The awaited requests are promises: when
\* the reasoning service answers or fails, and when a generation call
\* returns or fails, the continuation of the call is scheduled and runs.
\* ------------------------------------------------------------------------
\* decisions for the ways a batch can go wrong: a generation that fails, an
\* update whose target does not resolve, an order the composer rejects
LiveDecisions ==
  { [Decision("REGENERATE_SCREEN", RationalePlain) EXCEPT
       !.regenerateSpecs = Some(<<SpecHeader>>)],
    [Decision("UPDATE_COMPONENTS", RationalePlain) EXCEPT
       !.updates = Some(<<[componentId |-> NoSuchRef,
                           changeDescription |-> "make it wider"],
                          [componentId |-> NameRef(<<"header">>),
                           changeDescription |-> "make it blue"]>>),
       !.screenOrder = Some(<<NameRef(<<"header">>), GhostRef>>)],
    [Decision("UPDATE_COMPONENTS", RationalePlain) EXCEPT
       !.newComponents = Some(<<SpecHero>>)] }

InitLive ==
  /\ store = <<>>
  /\ calls = [c \in Slots |-> IdleCall]
  /\ ncalls = 0
  /\ clock = 1
  /\ service = LiveDecisions
  /\ normIn = Undefined
  /\ normOut = Undefined
  /\ resolved = NoneResolved
  /\ resets = <<>>
  /\ page = InitialPage

\* runAgent where every external call eventually returns or fails: the
\* reasoning request of a call is answered in one way or another, and a
\* pending generation call of its batch returns or fails
SpecLive ==
  /\ InitLive
  /\ [][Next]_vars
  /\ \A c \in Slots :
       /\ WF_vars(ReasoningFails(c) \/ RetryOutputInvalid(c)
                    \/ FirstOutputInvalid(c) \/ OutputValid(c))
       /\ WF_vars(\E i \in OpIndexes : GenerationFails(c, i) \/ GenerationSucceeds(c, i))

\* call c is under way: it waits for the reasoning service or for its batch
Running(c) == calls[c].pc \in {"deciding", "retrying", "executing"}

\* call c has a result value for its caller
Terminated(c) ==
  /\ calls[c].pc = "done"
  /\ IsDef(calls[c].result)
  /\ calls[c].result[1].success \in BOOLEAN

\* C35: every handlePrompt call terminates with a result value, success or
\* failure, provided every reasoning and generation call eventually returns
\* or fails: a call that is under way leads to the call holding its result.
C35_Terminates ==
  \A c \in Slots : Running(c) ~> Terminated(c)

\* C35: a call that ended with a result although, in its batch, a target
\* did not resolve, a generation failed and the compose step was rejected
C35_Witness ==
  \E c \in Slots :
    /\ Terminated(c)
    /\ IsDef(calls[c].decision)
    /\ IsDef(calls[c].decision[1].updates)
    /\ Len(calls[c].decision[1].updates[1]) = 2
    /\ Len(calls[c].ops) = 1
    /\ calls[c].ops[1].status = "rejected"
    /\ IsDef(calls[c].composed)
    /\ ~calls[c].composed[1].success

\* ------------------------------------------------------------------------
\* The effect of one update (checked under Spec)
\* ------------------------------------------------------------------------
\* the step in which the generation of update op i of call c returns and
\* the updated unit is stored
UpdateStored(c, i) ==
  /\ calls[c].pc = "executing"
  /\ i \in 1..Len(calls[c].ops)
  /\ calls[c].ops[i].kind = "update"
  /\ calls[c].ops[i].status = "pending"
  /\ calls'[c].ops[i].status = "fulfilled"

\* the unit mapping after the step is the one before it with, at most, the
\* body, the description and the timestamp of the unit `id` changed
OnlyBodyChanged(before, after, id) ==
  /\ IdsOf(after) = IdsOf(before)
  /\ id \in Range(IdsOf(before))
  /\ \A k \in 1..Len(before) :
       IF before[k].id = id
       THEN /\ after[k].name = before[k].name
            /\ after[k].html # before[k].html
       ELSE after[k] = before[k]

\* C36: an update mutates a unit in place and nothing else.  In the step
\* that stores a successful update, the unit mapping keeps its identifiers
\* in their iteration order, the target keeps its identifier and name and
\* has a new body, every other unit is unchanged, and the composition is
\* unchanged unless the step also ends the batch and its compose step
\* succeeds.
C36_UpdateInPlace ==
  [][ \A c \in Slots, i \in OpIndexes :
        UpdateStored(c, i) =>
          /\ OnlyBodyChanged(store[calls[c].actualSessionId].components,
                             store'[calls[c].actualSessionId].components,
                             calls[c].ops[i].existing[1].id)
          /\ \/ store'[calls[c].actualSessionId].screen =
                  store[calls[c].actualSessionId].screen
             \/ /\ calls'[c].pc = "done"
                /\ IsDef(calls'[c].composed)
                /\ calls'[c].composed[1].success ]_vars

\* C36: the update of a batch is stored while a creation of the batch is
\* pending: the session of two units has the same identifiers in the same
\* order and the same composition as before the call, and the header has
\* the new body and a revised description
C36_Witness ==
  \E c \in Slots :
    /\ calls[c].pc = "executing"
    /\ Updates(c) = {1}
    /\ Fulfilled(c) = {1}
    /\ Len(Now(c).components) = 2
    /\ IdsOf(Now(c).components) = IdsOf(Before(c).components)
    /\ Now(c).screen = Before(c).screen
    /\ \E u \in Range(Now(c).components) :
         /\ u.id = calls[c].ops[1].existing[1].id
         /\ u.description = "revised"
         /\ u.html.change = "make it blue"

\* ------------------------------------------------------------------------
\* A full regeneration without specs (checked under Spec)
\* ------------------------------------------------------------------------
\* call c has returned and its decision was a full regeneration without
\* regeneration specs
RegenerateWithoutSpecs(c) ==
  /\ calls[c].pc = "done"
  /\ IsDef(calls[c].decision)
  /\ calls[c].decision[1].action = "REGENERATE_SCREEN"
  /\ Len(OrElse(calls[c].decision[1].regenerateSpecs, <<>>)) = 0

\* C37: a full-regeneration decision that reaches execution without
\* regeneration specs is rejected before anything is cleared: the call
\* returns success=false, the unit mapping and the composition are exactly
\* as before the call, and no audit entry is appended.
C37_RejectedBeforeClear ==
  \A c \in Slots :
    RegenerateWithoutSpecs(c) =>
      /\ ~calls[c].result[1].success
      /\ calls[c].result[1].error = Some("REGENERATE_SCREEN requires regenerateSpecs")
      /\ calls[c].ops = <<>>
      /\ Now(c).components = Before(c).components
      /\ Now(c).screen = Before(c).screen
      /\ Now(c).decisionHistory = Before(c).decisionHistory

\* C37: "Start From Scratch" without specs on a session of three composed
\* units: rejected with the three units and the composition in place
C37_Witness ==
  \E c \in Slots :
    /\ RegenerateWithoutSpecs(c)
    /\ ~calls[c].result[1].success
    /\ Len(Before(c).components) = 3
    /\ IsDef(Before(c).screen)
    /\ Now(c).components = Before(c).components
    /\ Now(c).screen = Before(c).screen

\* ------------------------------------------------------------------------
\* A rejected compose step in an incremental update (checked under SpecLive)
\* ------------------------------------------------------------------------
\* call c has returned from an incremental update whose compose step was
\* rejected
ComposeRejected(c) ==
  /\ Updating(c)
  /\ calls[c].pc = "done"
  /\ IsDef(calls[c].composed)
  /\ ~calls[c].composed[1].success

\* C38: in an incremental update whose compose step is rejected, the
\* session's composition stays the one before the call, the units created
\* or updated in the batch are in the unit mapping as generated, and the
\* call returns success=true and appends one audit entry.
C38_RejectedComposeKeepsScreen ==
  \A c \in Slots :
    ComposeRejected(c) =>
      /\ Now(c).screen = Before(c).screen
      /\ \A i \in Fulfilled(c) : calls[c].ops[i].data[1] \in Range(Now(c).components)
      /\ calls[c].result[1].success
      /\ Len(Now(c).decisionHistory) = Len(Before(c).decisionHistory) + 1

\* C38: the header of a composed session is updated by a batch whose order
\* names the header and an identifier of no unit: the update is stored, the
\* composition is the prior one and the call succeeds
C38_Witness ==
  \E c \in Slots :
    /\ ComposeRejected(c)
    /\ GhostRef.id \in Range(calls[c].composed[1].componentIds)
    /\ Fulfilled(c) = {1}
    /\ IsDef(Before(c).screen)
    /\ Now(c).screen = Before(c).screen
    /\ calls[c].result[1].success
    /\ \E u \in Range(Now(c).components) : u.html.change = "make it blue"

\* ------------------------------------------------------------------------
\* A full regeneration with another call in flight (checked under SpecConc)
\* ------------------------------------------------------------------------
\* call c returns in this step from a full regeneration, with success
RegenerationReturns(c) ==
  /\ Returns(c)
  /\ IsDef(calls'[c].decision)
  /\ calls'[c].decision[1].action = "REGENERATE_SCREEN"
  /\ calls'[c].result[1].success

\* the identifiers of the units the batch of call c generates
GeneratedBy(c) == {NewComponentId(calls'[c].callNo, i) : i \in 1..Len(calls'[c].ops)}

\* C39: with calls interleaved on one session, when a full-regeneration
\* call returns success the unit mapping of its session holds only units
\* that call generated.
C39_RegenerationAlone ==
  [][ \A c \in Slots :
        RegenerationReturns(c) =>
          \A u \in Range(store'[calls'[c].actualSessionId].components) :
            u.id \in GeneratedBy(c) ]_vars

\* ------------------------------------------------------------------------
\* The session view of a result (checked under Spec)
\* ------------------------------------------------------------------------
\* C40: every result of handlePrompt, success or failure, carries the view
\* of the session the call operated on: its identifier is the identifier of
\* that session, which is in the store.
C40_ResultNamesSession ==
  \A c \in Slots :
    calls[c].pc = "done" =>
      /\ calls[c].actualSessionId \in DOMAIN store
      /\ calls[c].result[1].session = Some(calls[c].actualSessionId)

====
